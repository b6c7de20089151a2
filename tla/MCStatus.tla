------------------------------ MODULE MCStatus ------------------------------
(***************************************************************************)
(* Instances of the status of queues and processes for TLC.                *)
(***************************************************************************)
EXTENDS Status

CONSTANTS q1, q2, u1, u2, p1, p2

Nobody == [queues |-> {}, users |-> {}, processes |-> {}, ignore |-> {}, room |-> 0, places |-> 0,
           errors |-> {"none"}, capacities |-> Capacities, files |-> 0, deaths |-> 0, seconds |-> 0]

(* A queue with all its errors; one that is made anew by a user that may   *)
(* die; one that two open at once; two queues, one after the other, one of *)
(* them ignored; one with no room for the name of its capacity; one whose  *)
(* histories fill their dictionary, and one for which two places are too   *)
(* few; a process that may die; two, with one place too few for their      *)
(* names.                                                                  *)
QueuesOrProcesses ==
  {[Nobody EXCEPT !.queues = {q1}, !.users = {u1}, !.room = 4, !.places = 4, !.files = 1,
                  !.errors = {"none", "interval", "last"}],
   [Nobody EXCEPT !.queues = {q1}, !.users = {u1}, !.room = 4, !.places = 4, !.files = 2, !.deaths = 1],
   [Nobody EXCEPT !.queues = {q1}, !.users = {u1, u2}, !.room = 4, !.places = 4, !.files = 1],
   [Nobody EXCEPT !.queues = {q1, q2}, !.users = {u1}, !.room = 8, !.places = 7, !.files = 1,
                  !.deaths = 1, !.ignore = {q2}, !.capacities = {5}],
   [Nobody EXCEPT !.queues = {q1}, !.users = {u1, u2}, !.room = 3, !.places = 4, !.files = 1],
   [Nobody EXCEPT !.queues = {q1}, !.users = {u1}, !.room = 4, !.places = 3, !.files = 1, !.deaths = 1,
                  !.errors = {"none", "interval"}],
   [Nobody EXCEPT !.queues = {q1}, !.users = {u1, u2}, !.room = 4, !.places = 2, !.files = 1],
   [Nobody EXCEPT !.processes = {p1}, !.room = 2, !.deaths = 1, !.seconds = 4],
   [Nobody EXCEPT !.processes = {p1, p2}, !.room = 3, !.seconds = 3]}

=============================================================================
