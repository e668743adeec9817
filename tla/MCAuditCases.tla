---------------------------- MODULE MCAuditCases ----------------------------
(* The audit pipeline with two workers, in two cases: a shutdown at any     *)
(* point, and a table dropped while the process crashes.  focus says which; *)
(* the constants of the configuration are those of the second.              *)
EXTENDS MCAuditPipeline

VARIABLE focus

Downs == INSTANCE AuditPipeline WITH
    Faults <- {"db"}, Events <- {"shutdown"}, MaxDrops <- 0, Months <- {1}, MonthOf <- OneMonth, Ahead <- {1}

CasesInit == Init /\ focus \in {"shutdown", "drop"}

DropStep     == focus = "drop" /\ Next /\ UNCHANGED focus
ShutdownStep == focus = "shutdown" /\ Downs!Next /\ UNCHANGED focus

CasesNext == DropStep \/ ShutdownStep

\* What can run does, in either case (Fairness).
Either(A, B) == (focus = "drop" /\ A) \/ (focus = "shutdown" /\ B)

CasesFairness ==
    /\ WF_vars(Either(Start, Downs!Start)) /\ WF_vars(Either(CloseSpool, Downs!CloseSpool))
    /\ WF_vars(Either(Replay, Downs!Replay))
    /\ WF_vars(Either(Compact, Downs!Compact)) /\ WF_vars(Either(Rename, Downs!Rename))
    /\ \A c \in Callers : WF_vars(Either(AppendLine(c) \/ Send(c), Downs!AppendLine(c) \/ Downs!Send(c)))
    /\ \A w \in Workers : WF_vars(Either(WorkerStep(w), Downs!WorkerStep(w)))

CasesSpec == CasesInit /\ [][CasesNext]_<< focus, vars >> /\ CasesFairness

\* A table dropped while the pipeline runs costs no entry: the write is tried
\* again on a new table (queue.go:204-208).
DropCostsNothing == focus = "drop" => DropTolerated

\* Every appended entry a queue, a batch or the replay holds is written in the
\* end, by this process or by a later one (queue.go:97-117).
HeldInTheEnd == \A e \in Entries : (focus = "drop" /\ e \in Held /\ e \in appended) ~> e \in Stored

=============================================================================
