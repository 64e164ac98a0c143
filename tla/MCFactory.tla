----------------------------- MODULE MCFactory -----------------------------
(* Goals, reviews and answers to check the factory on: a goal to build and  *)
(* one to review, with and without task worktrees, a policy that names a    *)
(* check, low coverage, and a plan with too little room.                    *)
EXTENDS Factory

CONSTANTS h1, h2

Goal(review, isolated, heads) ==
    [review |-> review, isolated |-> isolated, required |-> {}, covered |-> TRUE, room |-> 2,
     heads |-> heads]
MCConfs ==
    {Goal(TRUE, FALSE, 3), Goal(FALSE, TRUE, 3), Goal(FALSE, FALSE, 2),
     [Goal(FALSE, TRUE, 2) EXCEPT !.required = {"check"}, !.room = 0],
     [Goal(FALSE, TRUE, 2) EXCEPT !.covered = FALSE]}

Report(found, missing, whole) == [found |-> found, missing |-> missing, whole |-> whole]
MCReviews ==
    [clean |-> Report({}, {}, TRUE), partial |-> Report({}, {}, FALSE),
     both |-> Report({h1, h2}, {h2}, TRUE)]

Reply(verdict, reach, favour, against) ==
    [verdict |-> verdict, reach |-> reach, sure |-> TRUE, whole |-> TRUE, cited |-> TRUE,
     favour |-> favour, against |-> against]
MCAnswers ==
    [yes |-> Reply("verified", "confirmed", TRUE, FALSE),
     no |-> Reply("rejected", "refuted", FALSE, TRUE),
     bare |-> Reply("rejected", "refuted", FALSE, FALSE)]
=============================================================================
