-------------------------------- MODULE Calendar --------------------------------
(***************************************************************************)
(* What the writers of interviews promise together: one diary, in which    *)
(* every entry is compared with all others and written in one step,        *)
(* whichever company wrote the others (interview_operations.go:92-107).    *)
(***************************************************************************)
EXTENDS Integers

CONSTANTS
    Interviews, Candidates, Recruiters,
    Times,   \* [at, len]
    Nothing  \* an interview that is not scheduled

VARIABLE diary \* [Interviews -> entry or Nothing]

Entries == [candidate : Candidates, panel : SUBSET Recruiters, time : Times]

Overlap(s, t) == s.at < t.at + t.len /\ t.at < s.at + s.len

Clash(d, e) ==
    /\ d # Nothing /\ e # Nothing
    /\ Overlap(d.time, e.time)
    /\ d.candidate = e.candidate \/ d.panel \cap e.panel # {}

Init == diary = [i \in Interviews |-> Nothing]

\* An interview is scheduled, moved, joined, left, cancelled or completed.
Write(i, e) ==
    /\ \A k \in Interviews \ {i} : ~Clash(e, diary[k])
    /\ diary' = [diary EXCEPT ![i] = e]

Next == \E i \in Interviews, e \in Entries \cup {Nothing} : Write(i, e)

Spec == Init /\ [][Next]_diary

\* Nobody is expected in two places at once.
NoDoubleBooking == \A i, k \in Interviews : i # k => ~Clash(diary[i], diary[k])

=============================================================================
