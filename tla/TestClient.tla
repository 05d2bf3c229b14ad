----------------------------- MODULE TestClient -----------------------------
(***************************************************************************)
(* The command line client (services/client/main.go): the loop that reads  *)
(* commands, the goroutine of each transfer that prints its progress, and  *)
(* the signal handler. A command makes a connection manager and a host of  *)
(* its own. Every error ends the process (log.Fatal).                      *)
(*                                                                         *)
(* At the end of its input the loop finds an empty command for ever, which *)
(* changes nothing here: it is a client whose Scan no longer happens.      *)
(***************************************************************************)
EXTENDS Integers

CONSTANTS
    MaxCommands,  \* bound: commands read
    MaxReports,   \* bound: progress reports of one transfer
    MaxHashes     \* bound: DAGs that a query finds

ASSUME ClientAssumption == {MaxCommands, MaxReports, MaxHashes} \subseteq Nat

Transfers == {"upload", "download", "download-range", "download-hashes", "reconstruct"}
Connecting == Transfers \cup {"query", "event"}

\* "keys", "help", a command without its arguments and one that is not known
\* change nothing.
Commands == Connecting \cup {"keys", "shutdown"}

VARIABLES
    pc,        \* "scan", "prepare", "call", "returned" or "exited"
    command,   \* the command under way
    scanned,   \* commands read
    found,     \* hashes of a query that are not downloaded yet
    hosts,     \* hosts that are open
    reports,   \* reports of this transfer
    sending,   \* the library is blocked on a report
    printer,   \* the goroutine of this transfer: "none", "waits" or "prints"
    leaving,   \* goroutines whose channel is closed and that have not ended
    sent       \* history: event commands that were completed

main == <<pc, command, scanned, found>>
progress == <<reports, sending, printer, leaving>>
vars == <<main, hosts, progress, sent>>

Init ==
    /\ pc = "scan" /\ command = "keys" /\ scanned = 0 /\ found = 0
    /\ hosts = 0
    /\ reports = 0 /\ sending = FALSE /\ printer = "none" /\ leaving = 0
    /\ sent = 0
-----------------------------------------------------------------------------
Scan ==
    /\ pc = "scan" /\ scanned < MaxCommands
    /\ scanned' = scanned + 1
    /\ command' \in Commands
    /\ pc' = CASE command' = "shutdown"    -> "exited"
               [] command' \in Connecting -> "prepare"
               [] OTHER                   -> "scan"
    /\ UNCHANGED <<found, hosts, progress, sent>>

\* Arguments, files, keys and signatures; a connection; the library's answer;
\* the directory of a reconstruction.
Fatal ==
    /\ \/ pc = "prepare"
       \/ pc = "call" /\ ~sending
       \/ pc = "returned" /\ command = "reconstruct"
    /\ pc' = "exited"
    /\ UNCHANGED <<command, scanned, found, hosts, progress, sent>>

Connect ==
    /\ pc = "prepare" /\ pc' = "call"
    /\ hosts' = hosts + 1
    /\ reports' = 0
    /\ printer' = IF command \in Transfers THEN "waits" ELSE "none"
    /\ UNCHANGED <<command, scanned, found, sending, leaving, sent>>

\* The channel has no buffer: the library waits until the report is taken.
Report ==
    /\ pc = "call" /\ command \in Transfers
    /\ ~sending /\ reports < MaxReports
    /\ sending' = TRUE /\ reports' = reports + 1
    /\ UNCHANGED <<main, hosts, printer, leaving, sent>>

TakeReport ==
    /\ sending /\ printer = "waits"
    /\ sending' = FALSE /\ printer' = "prints"
    /\ UNCHANGED <<main, hosts, reports, leaving, sent>>

\* Mutant: the goroutine takes one report, as if none could follow.
PrintsOnce ==
    /\ printer = "prints" /\ printer' = "none"
    /\ UNCHANGED <<main, hosts, reports, sending, leaving, sent>>

Printed ==
    /\ printer = "prints" /\ printer' = "waits"
    /\ UNCHANGED <<main, hosts, reports, sending, leaving, sent>>

\* The channel is closed, and the goroutine ends when it comes to see it.
TransferReturns ==
    /\ pc = "call" /\ command \in Transfers /\ ~sending
    /\ pc' = "returned"
    /\ leaving' = leaving + 1 /\ printer' = "none"
    /\ UNCHANGED <<command, scanned, found, hosts, reports, sending, sent>>

\* QueryDag answers, and what it found is downloaded; or the event was sent
\* and asked for.
CallReturns ==
    /\ pc = "call" /\ command \in {"query", "event"}
    /\ pc' = "returned"
    /\ found' \in IF command = "query" THEN 0..MaxHashes ELSE {0}
    /\ UNCHANGED <<command, scanned, hosts, progress, sent>>

DownloadFound ==
    /\ pc = "returned" /\ found > 0
    /\ \/ found' = found - 1 /\ UNCHANGED pc
       \/ pc' = "exited" /\ UNCHANGED found
    /\ UNCHANGED <<command, scanned, hosts, progress, sent>>

\* Mutant: a query that found nothing leaves before its Disconnect.
DisconnectAfterDownloads ==
    /\ pc = "returned" /\ found = 0 /\ command # "event"
    /\ pc' = "scan"
    /\ hosts' \in IF command = "query" THEN {hosts, hosts - 1} ELSE {hosts - 1}
    /\ UNCHANGED <<command, scanned, found, progress, sent>>

Disconnect ==
    /\ pc = "returned" /\ found = 0 /\ command # "event"
    /\ pc' = "scan"
    /\ hosts' = hosts - 1
    /\ UNCHANGED <<command, scanned, found, progress, sent>>

\* UploadEvent ends without a Disconnect.
EventDone ==
    /\ pc = "returned" /\ command = "event"
    /\ pc' = "scan"
    /\ sent' = sent + 1
    /\ UNCHANGED <<command, scanned, found, hosts, progress>>

PrinterEnds ==
    /\ leaving > 0 /\ leaving' = leaving - 1
    /\ UNCHANGED <<main, hosts, reports, sending, printer, sent>>

\* SIGINT or SIGTERM.
Interrupt ==
    /\ pc # "exited" /\ pc' = "exited"
    /\ UNCHANGED <<command, scanned, found, hosts, progress, sent>>

Command ==
    \/ Connect \/ TransferReturns \/ CallReturns \/ DownloadFound
    \/ Disconnect \/ EventDone \/ Fatal

Printer == TakeReport \/ Printed

Running(A) == pc # "exited" /\ A

Next ==
    \/ Scan \/ Command \/ Interrupt
    \/ Running(Report) \/ Running(Printer) \/ Running(PrinterEnds)

\* The library's calls return (upload, download, request), goroutines run.
\* Nothing is promised of the user.
Fairness ==
    /\ WF_vars(Command)
    /\ WF_vars(Running(Printer))
    /\ WF_vars(Running(PrinterEnds))

Spec == Init /\ [][Next]_vars /\ Fairness
-----------------------------------------------------------------------------
(* Correctness.                                                            *)

\* A client that waits for a command has closed the host of every command it
\* completed, those that send an event excepted.
HostsReleased == pc = "scan" => hosts = sent

\* A command ends, with the prompt or with the process, and the goroutine that
\* prints its progress ends, however late it takes the reports.
CommandsEnd ==
    <>[](pc = "exited" \/ (pc = "scan" /\ printer = "none" /\ leaving = 0))
-----------------------------------------------------------------------------
(* The inductive invariant behind the safety properties, in named parts.   *)

TypeOK ==
    /\ pc \in {"scan", "prepare", "call", "returned", "exited"}
    /\ command \in Commands /\ scanned \in 0..MaxCommands /\ found \in 0..MaxHashes
    /\ hosts \in Nat /\ sent \in Nat
    /\ reports \in 0..MaxReports /\ sending \in BOOLEAN
    /\ printer \in {"none", "waits", "prints"} /\ leaving \in Nat

\* A command that is under way needs a connection, and only a query finds DAGs.
UnderWay ==
    /\ pc \in {"prepare", "call", "returned"} => command \in Connecting
    /\ pc # "exited" /\ found > 0 => pc = "returned" /\ command = "query"

\* The hosts that are open are those of the events that were sent, and the one
\* of the command under way from its connection to its Disconnect.
OneHost ==
    pc # "exited" =>
        hosts = sent + (IF pc \in {"call", "returned"} THEN 1 ELSE 0)

\* A goroutine takes the reports exactly as long as a transfer may make one.
ReportsTaken ==
    pc # "exited" =>
        /\ printer # "none" <=> pc = "call" /\ command \in Transfers
        /\ sending => printer # "none"

IInv == TypeOK /\ UnderWay /\ OneHost /\ ReportsTaken
=============================================================================
