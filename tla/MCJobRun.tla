------------------------------ MODULE MCJobRun ------------------------------
(* Model-checking instances of JobRun.                                     *)
EXTENDS JobRun

Plain == [id |-> "a", singleton |-> FALSE, semaphores |-> << >>, timeout |-> FALSE,
          resource |-> FALSE, history |-> TRUE, retainSuccess |-> TRUE, ignoreSuccess |-> FALSE]

MCRuns == {"r1", "r2"}
MCJobs == {"scheduled", "manual", "other"}
MCSemaphores == {"narrow", "wide"}
MCPermits == [narrow |-> 1, wide |-> 1]

\* Two Job objects for one resource, and a job with a timeout that shares the
\* semaphores with one of them.
MCConfig ==
  [scheduled |-> [Plain EXCEPT !.singleton = TRUE, !.semaphores = <<"narrow", "wide">>],
   manual |-> [Plain EXCEPT !.singleton = TRUE, !.retainSuccess = FALSE],
   other |-> [Plain EXCEPT !.id = "b", !.semaphores = <<"narrow", "wide">>, !.resource = TRUE,
                          !.timeout = TRUE]]
=============================================================================
