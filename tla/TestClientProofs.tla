-------------------------- MODULE TestClientProofs --------------------------
(***************************************************************************)
(* Proofs about TestClient, for any number of commands, reports and DAGs   *)
(* that a query finds.                                                     *)
(***************************************************************************)
EXTENDS TestClient, TLAPS

LEMMA ClientInit ==
    ASSUME Init
    PROVE  IInv
<1>1. /\ pc = "scan" /\ command = "keys" /\ scanned = 0 /\ found = 0 /\ hosts = 0 /\ sent = 0
      /\ reports = 0 /\ sending = FALSE /\ printer = "none" /\ leaving = 0
  BY DEF Init
<1>2. "keys" \in Commands
  BY DEF Commands
<1>3. 0 \in 0..MaxCommands /\ 0 \in 0..MaxReports /\ 0 \in 0..MaxHashes
  BY ClientAssumption
<1>4. TypeOK
  BY <1>1, <1>2, <1>3 DEF TypeOK
<1> QED
  BY <1>1, <1>4 DEF IInv, UnderWay, OneHost, ReportsTaken

LEMMA ClientStep ==
    ASSUME IInv, [Next]_vars
    PROVE  IInv'
<1> USE ClientAssumption DEF IInv, TypeOK, UnderWay, OneHost, ReportsTaken
<1>1. CASE Scan
  <2>1. command' \in Commands \ Connecting \/ command' \in Connecting
    BY <1>1 DEF Scan
  <2>2. pc' \in {"exited", "prepare", "scan"} /\ (pc' = "prepare" => command' \in Connecting)
    BY <1>1 DEF Scan
  <2> QED
    BY <1>1, <2>1, <2>2 DEF Scan, progress
<1>2. CASE Connect
  BY <1>2 DEF Connect, Connecting
<1>3. CASE TransferReturns
  BY <1>3 DEF TransferReturns
<1>4. CASE CallReturns
  <2>1. command \notin Transfers /\ (found' > 0 => command = "query")
    BY <1>4 DEF CallReturns, Transfers
  <2> QED
    BY <1>4, <2>1 DEF CallReturns, progress
<1>5. CASE DownloadFound
  BY <1>5 DEF DownloadFound, progress
<1>6. CASE Disconnect
  BY <1>6 DEF Disconnect, progress
<1>7. CASE EventDone
  BY <1>7 DEF EventDone, progress
<1>8. CASE Fatal \/ Interrupt
  BY <1>8 DEF Fatal, Interrupt, progress
<1>9. CASE Report
  BY <1>9 DEF Report, main
<1>10. CASE Printer
  BY <1>10 DEF Printer, TakeReport, Printed, main
<1>11. CASE PrinterEnds
  BY <1>11 DEF PrinterEnds, main
<1>12. CASE UNCHANGED vars
  BY <1>12 DEF vars, main, progress
<1> QED
  BY <1>1, <1>2, <1>3, <1>4, <1>5, <1>6, <1>7, <1>8, <1>9, <1>10, <1>11, <1>12
     DEF Next, Command, Running
-----------------------------------------------------------------------------
\* The inductive invariant holds in every reachable state of the client: the
\* loop that reads commands (main.go:52-117), what they do, and the goroutine
\* of a transfer (main.go:433-457).
THEOREM ClientInvariant == Spec => []IInv
  BY ClientInit, ClientStep, PTL DEF Spec

\* A client that waits for a command has closed the host of every command it
\* completed, those that send an event excepted (main.go:498-524 and 657-684).
THEOREM ClientHostsReleased == Spec => []HostsReleased
<1>1. IInv => HostsReleased
  BY DEF IInv, TypeOK, OneHost, HostsReleased
<1> QED
  BY <1>1, ClientInvariant, PTL

\* The channel of the reports has no buffer, and the library is never left
\* waiting on it by a goroutine that has ended: while the process lives, a
\* report that is being sent belongs to a transfer whose goroutine takes the
\* reports (main.go:238-254 and 367-377).
THEOREM ClientReportsTaken ==
    Spec => [](pc # "exited" /\ sending =>
                   pc = "call" /\ command \in Transfers /\ printer \in {"waits", "prints"})
<1>1. IInv => (pc # "exited" /\ sending =>
                   pc = "call" /\ command \in Transfers /\ printer \in {"waits", "prints"})
  BY DEF IInv, TypeOK, ReportsTaken
<1> QED
  BY <1>1, ClientInvariant, PTL
=============================================================================
