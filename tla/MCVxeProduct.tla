---------------------------- MODULE MCVxeProduct ----------------------------
(***************************************************************************)
(* Scenarios of VxeProduct for TLC: what is multiplied, and how memory     *)
(* answers.                                                                *)
(***************************************************************************)
EXTENDS VxeProduct

CONSTANT Scenarios

VARIABLE scenario

ScInit == ProductInit /\ scenario \in Scenarios

-----------------------------------------------------------------------------
\* What is multiplied.

Vectors(rs, rt, vl) == [en |-> TRUE, rs |-> rs, rt |-> rt, vl |-> vl]
One(v) == [t \in Threads |-> IF t = 0 THEN v ELSE Off]
Two(v, w) == [t \in Threads |-> CASE t = 0 -> v [] t = 7 -> w [] OTHER -> Off]

\* Even and odd addresses, by one thread or by two.
AnyWork == {One(Vectors(1, 20, 4)), Two(Vectors(0, 20, 1), Vectors(41, 60, 1))}

\* Vectors longer than what the unit holds of an operand.
LongWork == {One(Vectors(0, 40, 26)), Two(Vectors(1, 40, 9), Vectors(81, 120, 12))}
LongestWork == {One(Vectors(0, 400, 120))}

Work == [any |-> AnyWork, errors |-> {One(Vectors(1, 20, 2))},
         late |-> LongWork, latest |-> LongestWork]

-----------------------------------------------------------------------------
\* How memory takes and answers: "any" and "errors" in every way; "late" and
\* "latest" take and answer at once, but Rt only when nothing more comes for Rs.

Asked(a) == \E t \in Threads : mem[<<t, a>>] # << >>
RequestComes ==
    \/ rqa_wr
    \/ /\ on_fly < NumReq
       /\ \/ rrq_wr \/ rrq_fifo # << >> \/ lrq_fifo # << >> \/ rqa_fifo # << >>
          \/ \E l \in Lanes : rq_fifo[l] # << >>
Late(ans) ==
    LET room == Len(chan) < ChanDepth
        turn == IF Asked(Rs) THEN Rs ELSE Rt
    IN  /\ ans = Silent <=> ~(room /\ (Asked(Rs) \/ (Asked(Rt) /\ ~RequestComes)))
        /\ ans # Silent => ans.lane[2] = turn

Step(ans, rdy) ==
    /\ ans # Silent /\ scenario # "errors" => ~ans.err
    /\ scenario \in {"late", "latest"} => Late(ans)
    /\ scenario \in {"late", "latest"} => rdy
    /\ \E r \in Work[scenario] \cup {Idles} : ProductClock(r, ans, rdy)
    /\ UNCHANGED scenario

ScNext == \E ans \in Answers \cup {Silent}, rdy \in BOOLEAN : Step(ans, rdy)
ScTakes == \E ans \in Answers \cup {Silent} : Step(ans, TRUE)
ScAnswers == \E ans \in Answers, rdy \in BOOLEAN : Step(ans, rdy)

scVars == <<productVars, scenario>>
ScSpec == ScInit /\ [][ScNext]_scVars /\ WF_scVars(ScTakes) /\ WF_scVars(ScAnswers)
=============================================================================
