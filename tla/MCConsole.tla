------------------------------ MODULE MCConsole ------------------------------
(***************************************************************************)
(* A console small enough for every buffer to wrap.                        *)
(***************************************************************************)
EXTENDS Console

RightCtl == <<29, TRUE>>
LeftAlt  == <<56, FALSE>>
Letter   == <<30, FALSE>>
Delete   == <<83, TRUE>>

MCModifier == {RightCtl, LeftAlt}
MCTapped   == {Letter, Delete}
MCPrompt   == <<62>>
MCReply    == {<<>>, <<9>>}
=============================================================================
