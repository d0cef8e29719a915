------------------------------- MODULE Shares -------------------------------
(***************************************************************************)
(* The share configuration of a running daemon: `share add` and `share rm` *)
(* edit the configuration file and apply it (filestrd/src/ctl_server.rs),  *)
(* SIGHUP applies what somebody wrote there by hand, and the signal loop   *)
(* of filestrd/src/main.rs does that, and stops the daemon.                *)
(*                                                                         *)
(* Every control connection is a task of a multi-threaded runtime, and     *)
(* nothing locks the file: a command is interrupted between any two calls. *)
(* The scans are those of module Scan: here one begins, cancels the one    *)
(* before, and ends.                                                       *)
(***************************************************************************)
EXTENDS Naturals, FiniteSets

CONSTANTS
    Clients,      \* control connections
    Loop,         \* the task of the signal loop
    Names,        \* names of shares
    MaxCommands,  \* bound on the commands given
    MaxByHand,    \* bound on the edits by hand
    MaxHups,      \* bound on the SIGHUPs
    MaxEnds,      \* bound on the crashes and requests to stop
    Unreadable,   \* the connections that may fail to read the file
    Initial       \* configuration files the daemon may start with

ASSUME SharesAssumption ==
    /\ Loop \notin Clients /\ Names # {}
    /\ Initial \subseteq [shares : SUBSET Names, view : SUBSET Names, kind : {"whole"}]
    /\ \A text \in Initial : text.view \subseteq text.shares
    /\ Unreadable \subseteq Clients
    /\ MaxCommands \in Nat /\ MaxByHand \in Nat /\ MaxHups \in Nat /\ MaxEnds \in Nat

VARIABLES
    conf,       \* the configuration file
    tmp,        \* its .tmp
    config,     \* State::config
    up,         \* the daemon runs
    task,       \* where each connection and the signal loop are, and their locals
    scan,       \* the scan the signal loop waits for
    signals,    \* what the signal loop has not taken yet
    promise,    \* history: what the last answer to a command on a share says of it
    overlapped, \* history: two commands were editing or applying at once
    raced,      \* history: a reload and a command were applying at once
    misread,    \* history: an addition could not read the file and took it for empty
    broken,     \* history: somebody wrote a view of unknown shares by hand
    left        \* the commands, edits, signals and crashes still to come

vars == <<conf, tmp, config, up, task, scan, signals,
          promise, overlapped, raced, misread, broken, left>>
file == <<conf, tmp>>
history == <<promise, overlapped, raced, misread, broken>>

Tasks == Clients \cup {Loop}

\* A configuration is its shares and the shares of its one view.  A file that
\* was cut to nothing is valid and has lost all other settings; bytes of two
\* writers do not parse.
Kind == {"whole", "cut", "torn"}
Content == [shares : SUBSET Names, view : SUBSET Names, kind : Kind]
Cut == [shares |-> {}, view |-> {}, kind |-> "cut"]
Torn == [Cut EXCEPT !.kind = "torn"]
None == [Cut EXCEPT !.kind = "none"]

\* Config::load_or_default and validate
Loads(text) == text.kind # "torn" /\ text.view \subseteq text.shares

Pc == {"idle", "open", "write", "rename", "load", "revert", "store", "scan", "exit"}
Idle == [pc |-> "idle", op |-> "none", name |-> CHOOSE n \in Names : TRUE, text |-> Cut, fd |-> "none"]
Local == [pc : Pc, op : {"none", "add", "rm", "revert", "reload"},
          name : Names, text : Content, fd : {"none", "tmp", "conf", "gone"}]

At(w, pc) == up /\ task[w].pc = pc
Goto(w, pc) == task' = [task EXCEPT ![w].pc = pc]
Done(w) == task' = [task EXCEPT ![w] = Idle]

\* Between a task's first look at the file and its last write of State::config
Busy(w) == task[w].pc \notin {"idle", "scan", "exit"}

Init ==
    /\ conf \in Initial
    /\ tmp = None
    /\ config = conf
    /\ up = TRUE
    /\ task = [w \in Tasks |-> Idle]
    /\ scan = "none"
    /\ signals = {}
    /\ promise = [n \in Names |-> "none"]
    /\ overlapped = FALSE /\ raced = FALSE /\ misread = FALSE /\ broken = FALSE
    /\ left = [commands |-> MaxCommands, byhand |-> MaxByHand, hups |-> MaxHups,
               ends |-> MaxEnds]

-----------------------------------------------------------------------------
(* The file.                                                               *)

\* remove_share_from_config, between reading and writing
Without(text, n) == [text EXCEPT !.shares = @ \ {n}, !.view = @ \ {n}]

\* A command begins to write this text to the file.
Edit(c, op, n, text) ==
    /\ At(c, "idle") /\ left.commands > 0
    /\ task' = [task EXCEPT ![c] = [Idle EXCEPT !.pc = "open", !.op = op, !.name = n, !.text = text]]
    /\ promise' = [promise EXCEPT ![n] = "none"]
    /\ overlapped' = (overlapped \/ \E d \in Clients : Busy(d))
    /\ raced' = (raced \/ Busy(Loop))
    /\ left' = [left EXCEPT !.commands = @ - 1]
    /\ UNCHANGED <<file, config, up, scan, signals, broken>>

\* add_share_to_config and remove_share_from_config, up to the write; a file that
\* does not parse, a name that is taken or that is not there is an error.
StartEdit(c, op, n) ==
    /\ conf.kind # "torn"
    /\ op = "add" <=> n \notin conf.shares
    /\ Edit(c, op, n, IF op = "add" THEN [conf EXCEPT !.shares = @ \cup {n}] ELSE Without(conf, n))
    /\ UNCHANGED misread

\* To add_share_to_config a file that cannot be read is an empty one.
AddUnread(c, n) ==
    /\ c \in Unreadable
    /\ Edit(c, "add", n, [Cut EXCEPT !.shares = {n}])
    /\ misread' = TRUE

\* Mutant: the configuration file itself is opened.
OpenTmp_InPlace(c) ==
    /\ At(c, "open")
    /\ conf' = Cut /\ tmp' = Cut
    /\ task' = [task EXCEPT ![c].pc = "write", ![c].fd = "tmp"]
    /\ UNCHANGED <<config, up, scan, signals, history, left>>

\* write_config_atomic: open and truncate the .tmp, whoever made it ...
OpenTmp(c) ==
    /\ At(c, "open")
    /\ tmp' = Cut
    /\ task' = [task EXCEPT ![c].pc = "write", ![c].fd = "tmp"]
    /\ UNCHANGED <<conf, config, up, scan, signals, history, left>>

\* What a write leaves in a file that another may have written since it was cut
Written(text, was) == IF was = Cut THEN {text} ELSE {text, Torn}

\* ... write to it, wherever it is by now ...
WriteTmp(c) ==
    /\ At(c, "write")
    /\ CASE task[c].fd = "tmp"  -> tmp' \in Written(task[c].text, tmp) /\ UNCHANGED conf
         [] task[c].fd = "conf" -> conf' \in Written(task[c].text, conf) /\ UNCHANGED tmp
         [] OTHER               -> UNCHANGED file
    /\ task' = [task EXCEPT ![c].pc = "rename", ![c].fd = "none"]
    /\ UNCHANGED <<config, up, scan, signals, history, left>>

\* The file behind an open descriptor after a rename of the .tmp
Moved(fd) == CASE fd = "tmp" -> "conf" [] fd = "conf" -> "gone" [] OTHER -> fd

\* Mutant: what is not there is renamed, too.
Rename_Unchecked(c) ==
    /\ At(c, "rename")
    /\ conf' = tmp /\ tmp' = None
    /\ task' = [w \in Tasks |->
                   IF w = c THEN [task[w] EXCEPT !.pc = "load"]
                   ELSE [task[w] EXCEPT !.fd = Moved(@)]]
    /\ UNCHANGED <<config, up, scan, signals, history, left>>

\* ... and rename whatever is there.  With nothing there the command fails; a
\* reversal that fails is ignored.
Rename(c) ==
    /\ At(c, "rename")
    /\ IF tmp # None
       THEN /\ conf' = tmp /\ tmp' = None
            /\ task' = [w \in Tasks |->
                           IF w = c THEN [task[w] EXCEPT !.pc = "load"]
                           ELSE [task[w] EXCEPT !.fd = Moved(@)]]
       ELSE /\ UNCHANGED file
            /\ IF task[c].op = "revert" THEN Goto(c, "load") ELSE Done(c)
    /\ UNCHANGED <<config, up, scan, signals, history, left>>

-----------------------------------------------------------------------------
(* Applying it.                                                            *)

\* apply_config reads the file; a rejected `share rm` or reload ends here.
Load(w) ==
    /\ At(w, "load")
    /\ IF Loads(conf)
       THEN task' = [task EXCEPT ![w].pc = "store", ![w].text = conf]
       ELSE IF task[w].op = "add" THEN Goto(w, "revert") ELSE Done(w)
    /\ promise' = IF ~Loads(conf) /\ task[w].op = "revert"
                  THEN [promise EXCEPT ![task[w].name] = "reverted"] ELSE promise
    /\ UNCHANGED <<file, config, up, scan, signals, overlapped, raced, misread, broken, left>>

\* Mutant: a rejected share stays in the file.
Revert_Forgotten(c) ==
    /\ At(c, "revert")
    /\ task' = [task EXCEPT ![c].op = "revert", ![c].pc = "load"]
    /\ UNCHANGED <<file, config, up, scan, signals, history, left>>

\* handle_share_add on a rejected configuration: the share is removed again,
\* from the views too, whether or not it was there that the name came from.
Revert(c) ==
    /\ At(c, "revert")
    /\ LET there == conf.kind # "torn" /\ task[c].name \in conf.shares
       IN  task' = [task EXCEPT ![c].op = "revert",
                                ![c].pc = IF there THEN "open" ELSE "load",
                                ![c].text = IF there THEN Without(conf, task[c].name) ELSE @]
    /\ UNCHANGED <<file, config, up, scan, signals, history, left>>

\* State::begin_scan: the scan before is cancelled.
Begin(w) ==
    scan' = IF w = Loop THEN "newest" ELSE IF scan = "none" THEN "none" ELSE "cancelled"

\* The rest of apply_config, and what follows it: `share add` is answered and
\* its scan left to itself, `share rm` and SIGHUP wait for theirs.
Store(w) ==
    /\ At(w, "store")
    /\ config' = task[w].text
    /\ IF task[w].op = "revert" THEN UNCHANGED scan ELSE Begin(w)
    /\ IF task[w].op \in {"rm", "reload"} THEN Goto(w, "scan") ELSE Done(w)
    /\ promise' = IF task[w].op = "reload" THEN promise
                  ELSE [promise EXCEPT ![task[w].name] =
                           CASE task[w].op = "add" -> "present"
                             [] task[w].op = "rm"  -> "absent"
                             [] OTHER              -> "reverted"]
    /\ UNCHANGED <<file, up, signals, overlapped, raced, misread, broken, left>>

\* The scan ends, by itself or cancelled, and its waiter goes on.
EndScan(w) ==
    /\ At(w, "scan")
    /\ Done(w)
    /\ scan' = IF w = Loop THEN "none" ELSE scan
    /\ UNCHANGED <<file, config, up, signals, history, left>>

\* `rescan --pause` and `rescan --cancel`.  A resumed scan may miss that it was
\* (module Scan), so a scan that was ever paused need not end unless cancelled.
PauseScan ==
    /\ scan = "newest" /\ scan' = "paused"
    /\ UNCHANGED <<file, config, up, task, signals, history, left>>

CancelScan ==
    /\ scan \in {"newest", "paused"} /\ scan' = "cancelled"
    /\ UNCHANGED <<file, config, up, task, signals, history, left>>

-----------------------------------------------------------------------------
(* Signals, stop and start.                                                *)

Hup ==
    /\ up /\ left.hups > 0
    /\ signals' = signals \cup {"hup"}
    /\ left' = [left EXCEPT !.hups = @ - 1]
    /\ UNCHANGED <<file, config, up, task, scan, history>>

Stops == {"stop", "shutdown"}

\* SIGINT or SIGTERM ("stop") or a Shutdown request, which cancels the token.
AskToStop ==
    /\ up /\ signals \cap Stops = {} /\ left.ends > 0
    /\ \E s \in Stops : signals' = signals \cup {s}
    /\ left' = [left EXCEPT !.ends = @ - 1]
    /\ UNCHANGED <<file, config, up, task, scan, history>>

\* run's loop, when it is not in the middle of a reload
TakeHup ==
    /\ At(Loop, "idle") /\ "hup" \in signals
    /\ signals' = signals \ {"hup"}
    /\ task' = [task EXCEPT ![Loop].pc = "load", ![Loop].op = "reload"]
    /\ raced' = (raced \/ \E c \in Clients : Busy(c))
    /\ UNCHANGED <<file, config, up, scan, promise, overlapped, misread, broken, left>>

\* Mutant: the loop does not look at the token.
TakeStop_Deaf ==
    /\ At(Loop, "idle") /\ "stop" \in signals
    /\ Goto(Loop, "exit")
    /\ UNCHANGED <<file, config, up, scan, signals, history, left>>

TakeStop ==
    /\ At(Loop, "idle") /\ signals \cap Stops # {}
    /\ Goto(Loop, "exit")
    /\ UNCHANGED <<file, config, up, scan, signals, history, left>>

\* The end of the process; the disk stays as it is.
Die ==
    /\ up' = FALSE
    /\ task' = [w \in Tasks |-> Idle]
    /\ signals' = {}
    /\ scan' = "none"
    /\ UNCHANGED <<file, config, history>>

\* The end of run; the connections are not waited for.
Exit == At(Loop, "exit") /\ Die /\ UNCHANGED left

Crash ==
    /\ up /\ left.ends > 0
    /\ Die
    /\ left' = [left EXCEPT !.ends = @ - 1]

\* run, up to the startup scan; it refuses to start on a file it cannot load.
Start ==
    /\ ~up /\ Loads(conf)
    /\ up' = TRUE
    /\ config' = conf
    /\ UNCHANGED <<file, task, scan, signals, history, left>>

\* Somebody edits the view in the file.
EditByHand ==
    /\ left.byhand > 0
    /\ \E view \in SUBSET Names :
          /\ conf' = [conf EXCEPT !.view = view]
          /\ broken' = (broken \/ ~view \subseteq conf.shares)
    /\ left' = [left EXCEPT !.byhand = @ - 1]
    /\ UNCHANGED <<tmp, config, up, task, scan, signals, promise, overlapped, raced, misread>>

Next ==
    \/ \E c \in Clients :
          \/ \E op \in {"add", "rm"}, n \in Names : StartEdit(c, op, n)
          \/ \E n \in Names : AddUnread(c, n)
          \/ OpenTmp(c) \/ WriteTmp(c) \/ Rename(c) \/ Revert(c)
    \/ \E w \in Tasks : Load(w) \/ Store(w) \/ EndScan(w)
    \/ PauseScan \/ CancelScan
    \/ Hup \/ AskToStop \/ TakeHup \/ TakeStop \/ Exit \/ Crash \/ Start
    \/ EditByHand

\* The runtime polls the signal loop, and a scan that was not paused, or was
\* cancelled, ends.  Nobody has to send signals or start the daemon again.
Fairness ==
    /\ WF_vars(TakeStop) /\ WF_vars(Exit)
    /\ WF_vars(Load(Loop)) /\ WF_vars(Store(Loop))
    /\ WF_vars(EndScan(Loop) /\ scan # "paused")

Spec == Init /\ [][Next]_vars /\ Fairness

-----------------------------------------------------------------------------
TypeOK ==
    /\ conf \in Content /\ tmp \in Content \cup {None}
    /\ config \in Content /\ up \in BOOLEAN
    /\ task \in [Tasks -> Local]
    /\ scan \in {"none", "newest", "paused", "cancelled"}
    /\ signals \in SUBSET (Stops \cup {"hup"})
    /\ promise \in [Names -> {"none", "present", "absent", "reverted"}]
    /\ overlapped \in BOOLEAN /\ raced \in BOOLEAN
    /\ misread \in BOOLEAN /\ broken \in BOOLEAN
    /\ left \in [commands : 0..MaxCommands, byhand : 0..MaxByHand, hups : 0..MaxHups,
                 ends : 0..MaxEnds]

\* write_config_atomic and remove_share_from_config: wherever a crash comes, the
\* file is one the daemon starts with and no setting in it is lost, unless two
\* commands were at it at once, `share add` could not read it, or somebody wrote a
\* view of unknown shares.
FileIsWhole ==
    overlapped \/ misread \/ broken \/ (conf.kind = "whole" /\ Loads(conf))

\* handle_share_add and handle_share_remove: a share that was added is in the
\* file and in use, one that was removed is in neither, and one that was rejected
\* with "reverted config" is not in the file, through crashes, reloads and edits
\* of the views by hand, unless two commands were at it at once or an addition could
\* not read the file; what is in use may also be what a reload had read before.
AckedEditIsKept ==
    overlapped \/ misread \/ \A n \in Names :
        /\ promise[n] = "present" =>
              n \in conf.shares /\ (up /\ ~raced => n \in config.shares)
        /\ promise[n] = "absent" =>
              n \notin conf.shares /\ (up /\ ~raced => n \notin config.shares)
        /\ promise[n] = "reverted" => n \notin conf.shares

\* run's loop: a daemon asked to stop does, or is in a reload whose scan
\* somebody paused.
StopIsHeeded ==
    up /\ signals \cap Stops # {}
        ~> ~up \/ scan = "paused"
=============================================================================
