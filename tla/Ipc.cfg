\* e1 and e2 both send to e3, and e1 is sent to as well.
SPECIFICATION Spec
CONSTANTS
    e1 = e1
    e2 = e2
    e3 = e3
    Env = {e1, e2, e3}
    Sender = {e1, e2}
    Receiver = {e1, e3}
    Value = {1, 2}
    None = None
PROPERTIES
    IsRendezvous
    SomeSendArrives
CHECK_DEADLOCK FALSE
