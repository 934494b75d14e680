--------------------------- MODULE MCVxeCtrlUnit ---------------------------
(***************************************************************************)
(* Programs for the control unit, one or two in an image.  They end as the *)
(* code generator ends them, with a SYNC that stops and interrupts; what   *)
(* is behind the end are commands no vector unit may ever see.             *)
(***************************************************************************)
EXTENDS VxeCtrlUnit

CONSTANTS v1, v2

All == {v1, v2}

Second == 14
Image(p, q) ==
    [a \in 0 .. Second + 20 |->
        IF a < Len(p) THEN p[a + 1]
        ELSE IF a >= Second /\ a < Second + Len(q) THEN q[a - Second + 1]
        ELSE Cmd(All)]

End0 == Sync(TRUE, TRUE)
Barrier == Sync(FALSE, FALSE)

Mixed == <<Cmd(All), Barrier, Nop, Cmd({v2}), End0>>
Long == <<Cmd({v2}), Cmd({v2}), Cmd({v2}), Cmd({v2}), Cmd({v2}), Cmd({v2}), Cmd({v2}),
          Cmd({v2}), End0>>
Unreadable == <<Cmd({v2}), Barrier, Cmd({v2}), Cmd({v2}), Cmd({v2}), Nop, Err>>
Undecodable == <<Cmd({v1}), Bad>>
Short == <<Nop, Cmd({v2}), End0>>
Pending == <<Cmd({v1}), Barrier, Cmd({v2}), Err>>

Both == Image(Undecodable, Short)
MCImages == {Image(p, << >>) : p \in {Mixed, Long, Unreadable}} \cup {Both}
MCPrograms(m) == IF m = Both THEN {0, Second} ELSE {0}

\* A command that a SYNC holds up, before a word that cannot be read.
PendingImages == {Image(Pending, << >>)}
PendingPrograms(m) == {0}
============================================================================
