---- MODULE CommandsProofs ----
(***************************************************************************)
(* What an export leaves behind and says of it, and what the commands read *)
(* from their arguments, for any number of processes and any command lines. *)
(*                                                                         *)
(* None of the properties is inductive.  What is: nothing is found and     *)
(* nothing is made before the stages are done; only an export with         *)
(* --output writes and only one with --force has a temporary file; what    *)
(* is renamed is whole; and a file under the name of the output was begun  *)
(* by the process whose it is.  What one process does to its own file      *)
(* leaves all this true of the others, whatever it does to the name.       *)
(***************************************************************************)
EXTENDS Commands, FoldProofs, TLAPS

Kinds == {"INT", "SRC", "CLI", "other"}
Places == {"start", "stages", "project", "server", "serving", "write", "writing",
           "rename", "cleanup", "done", "dead"}
Runs == [line : UNION {Lines[p] : p \in Processes}, at : Places, stage : Nat,
         found : SUBSET Kinds, printed : {"nothing", "artifact", "report", "summary"},
         exit : {0, 1, 2, 3, NoExit}]

Typed ==
    /\ run \in [Processes -> Runs]
    /\ output \in {"absent", "before"} \cup Processes
    /\ temporary \subseteq Processes
    /\ written \in [Processes -> {"none", "part", "whole"}]

(* Where a process is tells what it has found and made so far.             *)
Early(p) ==
    run[p].at \in {"start", "stages", "project", "server", "serving", "write"} =>
        written[p] = "none" /\ p \notin temporary /\ output # p
Unfinished(p) ==
    run[p].at # "done" =>
        run[p].found = {} /\ (Exporting(p) => run[p].exit = NoExit)
Opens(p) == run[p].at \in {"project", "server", "serving"} => ~Exporting(p)
AtWork(p) ==
    /\ run[p].at \in {"write", "writing", "rename", "cleanup"} =>
          Exporting(p) /\ Given(p, "--output")
    /\ run[p].at = "writing" => written[p] = "part"
    /\ run[p].at = "rename" => written[p] = "whole"
    /\ run[p].at \in {"rename", "cleanup"} => Given(p, "--force")

(* Whose file is where.                                                    *)
Named(p) ==
    /\ p \in temporary => Given(p, "--force")
    /\ output = p => written[p] # "none"
    /\ Given(p, "--force") /\ run[p].at # "done" => output # p

Torn(p) ==
    output = p /\ written[p] = "part" =>
        /\ ~Forces(p)
        /\ run[p].at \in {"writing", "dead"} \/ run[p].exit = 2
Valid(p) ==
    written[p] # "none" => /\ Exporting(p) /\ Given(p, "--output")
                           /\ run[p].found \subseteq {"CLI"}
Delivered(p) ==
    Exporting(p) /\ Succeeded(p) =>
        /\ p \notin temporary
        /\ IF Given(p, "--output") THEN written[p] = "whole"
                                   ELSE run[p].printed = "artifact"

Sound(p) ==
    /\ Early(p) /\ Unfinished(p) /\ Opens(p) /\ AtWork(p) /\ Named(p)
    /\ Torn(p) /\ Valid(p) /\ Delivered(p)

IInv == Typed /\ \A p \in Processes : Sound(p)

(* The invariant gives the properties.                                     *)
LEMMA InvariantGivesProperties ==
    IInv => TornIsKnown /\ WrittenOnlyWhenValid /\ SuccessDelivers
    BY DEF IInv, Sound, Torn, Valid, Delivered, TornIsKnown, WrittenOnlyWhenValid,
           SuccessDelivers

(* It holds when the processes are started.                                *)
LEMMA InitInvariant == Init => IInv
<1> SUFFICES ASSUME Init PROVE IInv
    OBVIOUS
<1>1. PICK line \in [Processes -> UNION {Lines[p] : p \in Processes}] :
        run = [p \in Processes |->
                 [line |-> line[p], at |-> "start", stage |-> 1, found |-> {},
                  printed |-> "nothing", exit |-> NoExit]]
    BY DEF Init
<1>2. Typed
    BY <1>1 DEF Init, Typed, Runs, Places
<1>3. ASSUME NEW p \in Processes PROVE Sound(p)
    <2>1. /\ run[p].at = "start" /\ run[p].found = {} /\ run[p].exit = NoExit
          /\ written[p] = "none" /\ p \notin temporary /\ output # p
        BY <1>1, LineAssumption DEF Init
    <2>2. QED
        BY <2>1 DEF Sound, Early, Unfinished, Opens, AtWork, Named, Torn, Valid,
                    Delivered, Succeeded, NoExit
<1> QED BY <1>2, <1>3 DEF IInv

(* A step of a process changes its own state, and not its command line.    *)
Own(p) ==
    /\ run' \in [Processes -> Runs]
    /\ \A q \in Processes \ {p} : run'[q] = run[q]
    /\ run'[p].line = run[p].line

LEMMA GoIsOwn ==
    ASSUME Typed, NEW p \in Processes, NEW at \in Places, Go(p, at)
    PROVE  /\ Own(p) /\ run'[p].at = at /\ run'[p].found = run[p].found
           /\ run'[p].exit = run[p].exit /\ run'[p].printed = run[p].printed
    BY DEF Typed, Runs, Go, Own

LEMMA QuitIsOwn ==
    ASSUME Typed, NEW p \in Processes, NEW code \in {2, 3}, Quit(p, code)
    PROVE  /\ Own(p) /\ run'[p].at = "done" /\ run'[p].found = run[p].found
           /\ run'[p].exit = code /\ run'[p].printed = run[p].printed
<1> DEFINE quit == [run[p] EXCEPT !.at = "done", !.exit = code]
<1>1. run[p] \in Runs /\ run'[p] = quit
    BY DEF Typed, Quit
<1>2. quit \in Runs
    BY <1>1 DEF Runs, Places
<1>3. /\ quit.line = run[p].line /\ quit.at = "done" /\ quit.found = run[p].found
      /\ quit.exit = code /\ quit.printed = run[p].printed
    BY <1>1 DEF Runs
<1> HIDE DEF quit
<1>4. Own(p)
    BY <1>1, <1>2, <1>3 DEF Typed, Quit, Own
<1> QED BY <1>1, <1>3, <1>4

LEMMA ExitCodeIsNotZero ==
    ASSUME NEW found PROVE ExitCode(found) \in {1, 2, 3}
    BY DEF ExitCode

LEMMA ReportIsOwn ==
    ASSUME Typed, NEW p \in Processes, NEW errors \in SUBSET Kinds,
           NEW artifact \in BOOLEAN, Report(p, errors, artifact)
    PROVE  /\ Own(p) /\ run'[p].at = "done" /\ run'[p].found = run[p].found \cup errors
           /\ run'[p].exit = IF run'[p].found = {} THEN 0 ELSE ExitCode(run'[p].found)
           /\ artifact /\ run'[p].found = {} /\ ~Given(p, "--output") =>
                 run'[p].printed = "artifact"
<1> DEFINE found == run[p].found \cup errors
<1> DEFINE printed == CASE artifact /\ found = {} /\ ~Given(p, "--output") -> "artifact"
                        [] Given(p, "--json") /\ (Given(p, "--output") \/ ~artifact) -> "report"
                        [] OTHER -> "summary"
<1>1. run' = [run EXCEPT ![p] = ReportOf(@, found, printed)]
    BY DEF Report
<1>2. printed \in {"artifact", "report", "summary"}
    OBVIOUS
<1>3. artifact /\ found = {} /\ ~Given(p, "--output") => printed = "artifact"
    OBVIOUS
<1>4. found \in SUBSET Kinds
    BY DEF Typed, Runs
<1> HIDE DEF found, printed
<1>5. run[p] \in Runs /\ run'[p] = ReportOf(run[p], found, printed)
    BY <1>1 DEF Typed
<1>6. ReportOf(run[p], found, printed) \in Runs
    BY <1>2, <1>4, <1>5, ExitCodeIsNotZero DEF ReportOf, Runs, Places
<1>7. /\ run'[p].line = run[p].line /\ run'[p].at = "done" /\ run'[p].found = found
      /\ run'[p].printed = printed
      /\ run'[p].exit = IF found = {} THEN 0 ELSE ExitCode(found)
    BY <1>5 DEF ReportOf, Runs
<1>8. Own(p)
    BY <1>1, <1>5, <1>6, <1>7 DEF Own, Typed
<1> QED BY <1>3, <1>7, <1>8 DEF found

(* The options of a process are those of its command line.                 *)
LEMMA FlagsStay ==
    ASSUME NEW p, run'[p].line = run[p].line
    PROVE  /\ Exporting(p)' <=> Exporting(p)
           /\ Given(p, "--output")' <=> Given(p, "--output")
           /\ Given(p, "--force")' <=> Given(p, "--force")
           /\ Forces(p)' <=> Forces(p)
    BY DEF Exporting, Given, Parsed, Forces

(* What a process does with files concerns its own ones; it may take the   *)
(* name of the output, and gives it to no other process.                   *)
Frame(p) ==
    \A q \in Processes \ {p} :
        /\ written'[q] = written[q]
        /\ q \in temporary' <=> q \in temporary
        /\ output' = q => output = q

LEMMA OthersStay ==
    ASSUME IInv, NEW p \in Processes, Own(p), Frame(p),
           NEW q \in Processes \ {p}
    PROVE  Sound(q)'
<1>1. /\ run'[q] = run[q] /\ written'[q] = written[q]
      /\ q \in temporary' <=> q \in temporary
      /\ output' = q => output = q
    BY DEF Own, Frame
<1>2. /\ Exporting(q)' <=> Exporting(q)
      /\ Given(q, "--output")' <=> Given(q, "--output")
      /\ Given(q, "--force")' <=> Given(q, "--force")
      /\ Forces(q)' <=> Forces(q)
    BY <1>1, FlagsStay
<1>3. Sound(q)
    BY DEF IInv
<1>4. Early(q)' /\ Unfinished(q)' /\ Opens(q)' /\ AtWork(q)'
    BY <1>1, <1>2, <1>3 DEF Sound, Early, Unfinished, Opens, AtWork
<1>5. Named(q)' /\ Torn(q)' /\ Valid(q)' /\ Delivered(q)'
    BY <1>1, <1>2, <1>3 DEF Sound, Named, Torn, Valid, Delivered, Succeeded
<1> QED BY <1>4, <1>5 DEF Sound

(* So a step keeps the invariant if it keeps what is said of the process   *)
(* that takes it.                                                          *)
LEMMA StepKeeps ==
    ASSUME IInv, NEW p \in Processes, Own(p), Frame(p), Sound(p)',
           output' \in {"absent", "before"} \cup Processes,
           temporary' \subseteq Processes,
           written' \in [Processes -> {"none", "part", "whole"}]
    PROVE  IInv'
<1>1. Typed'
    BY DEF Typed, Own
<1>2. ASSUME NEW q \in Processes PROVE Sound(q)'
    BY OthersStay
<1> QED BY <1>1, <1>2 DEF IInv

LEMMA QuietStepKeeps ==
    ASSUME IInv, NEW p \in Processes, Own(p), UNCHANGED files, Sound(p)'
    PROVE  IInv'
<1>1. Frame(p)
    BY DEF Frame, files
<1>2. /\ output' \in {"absent", "before"} \cup Processes
      /\ temporary' \subseteq Processes
      /\ written' \in [Processes -> {"none", "part", "whole"}]
    BY DEF IInv, Typed, files
<1> QED BY <1>1, <1>2, StepKeeps

(* A process that has made nothing yet may quit,                           *)
LEMMA QuitKeeps ==
    ASSUME IInv, NEW p \in Processes, NEW code \in {2, 3}, Quit(p, code),
           run[p].at \in {"start", "stages", "project", "server"}, UNCHANGED files
    PROVE  IInv'
<1>1. Typed /\ Sound(p)
    BY DEF IInv
<1>2. /\ Own(p) /\ run'[p].at = "done" /\ run'[p].found = run[p].found
      /\ run'[p].exit = code
    BY <1>1, QuitIsOwn
<1>3. run'[p].line = run[p].line
    BY <1>2 DEF Own
<1>4. Sound(p)'
    BY <1>1, <1>2, <1>3, FlagsStay
    DEF Sound, Early, Unfinished, Opens, AtWork, Named, Torn, Valid, Delivered,
        Succeeded, files
<1> QED BY <1>2, <1>4, QuietStepKeeps

(* or go on to where nothing is made either.                               *)
LEMMA GoOnKeeps ==
    ASSUME IInv, NEW p \in Processes, NEW at \in {"stages", "project", "server"},
           Go(p, at), UNCHANGED files,
           run[p].at \in {"start", "stages", "project", "server"},
           at # "stages" => ~Exporting(p)
    PROVE  IInv'
<1>1. Typed /\ Sound(p) /\ at \in Places
    BY DEF IInv, Places
<1>2. /\ Own(p) /\ run'[p].at = at /\ run'[p].found = run[p].found
      /\ run'[p].exit = run[p].exit
    BY <1>1, GoIsOwn
<1>3. run'[p].line = run[p].line
    BY <1>2 DEF Own
<1>4. Sound(p)'
    BY <1>1, <1>2, <1>3, FlagsStay
    DEF Sound, Early, Unfinished, Opens, AtWork, Named, Torn, Valid, Delivered,
        Succeeded, files, NoExit
<1> QED BY <1>2, <1>4, QuietStepKeeps

LEMMA StartKeeps ==
    ASSUME IInv, NEW p \in Processes, Start(p) PROVE IInv'
<1>1. \/ \E code \in {2, 3} : Quit(p, code)
      \/ Go(p, "stages")
    BY DEF Start
<1> QED BY <1>1, QuitKeeps, GoOnKeeps DEF Start

LEMMA FindingsAreKinds ==
    ASSUME NEW stage PROVE Findings(stage) \subseteq SUBSET Kinds
    BY DEF Findings, Kinds

LEMMA RunStageKeeps ==
    ASSUME IInv, NEW p \in Processes, RunStage(p) PROVE IInv'
<1>1. PICK found \in Findings(Stage(p)) :
        CASE GivesUp(p, found) -> Report(p, found, Stage(p) = "export")
          [] ~GivesUp(p, found) /\ LastStage(p) /\ ~Given(p, "--output") ->
                Report(p, found, TRUE)
          [] OTHER ->
                IF LastStage(p)
                THEN run' = [run EXCEPT ![p].found = @ \cup found, ![p].at = "write"]
                ELSE run' = [run EXCEPT ![p].found = @ \cup found, ![p].stage = @ + 1]
    BY DEF RunStage
<1>2. Typed /\ Sound(p) /\ UNCHANGED files /\ run[p].at = "stages"
    BY DEF IInv, RunStage
<1>3. run[p].found = {} /\ written[p] = "none" /\ p \notin temporary /\ output # p
    BY <1>2 DEF Sound, Early, Unfinished
<1>4. found \in SUBSET Kinds
    BY <1>1, FindingsAreKinds
<1>5. CASE GivesUp(p, found)
    <2>1. PICK artifact \in BOOLEAN : Report(p, found, artifact)
        BY <1>1, <1>5
    <2>6. /\ Own(p) /\ run'[p].at = "done" /\ run'[p].found = run[p].found \cup found
          /\ run'[p].exit = IF run'[p].found = {} THEN 0 ELSE ExitCode(run'[p].found)
        BY <1>2, <1>4, <2>1, ReportIsOwn
    <2>2. /\ Own(p) /\ run'[p].at = "done" /\ run'[p].found = found
          /\ run'[p].exit = IF found = {} THEN 0 ELSE ExitCode(found)
        BY <1>3, <2>6
    <2>3. run'[p].line = run[p].line
        BY <2>2 DEF Own
    <2>4. Exporting(p) => run'[p].exit # 0
        BY <1>5, <2>2, ExitCodeIsNotZero DEF GivesUp
    <2>5. Sound(p)'
        BY <1>2, <1>3, <2>2, <2>3, <2>4, FlagsStay
        DEF Sound, Early, Unfinished, Opens, AtWork, Named, Torn, Valid, Delivered,
            Succeeded, files
    <2> QED BY <1>2, <2>2, <2>5, QuietStepKeeps
<1>6. CASE ~GivesUp(p, found) /\ LastStage(p) /\ ~Given(p, "--output")
    <2>1. Report(p, found, TRUE) /\ found = {}
        BY <1>1, <1>6 DEF GivesUp
    <2>2. /\ Own(p) /\ run'[p].at = "done" /\ run'[p].found = {}
          /\ run'[p].printed = "artifact"
        BY <1>2, <1>3, <1>4, <1>6, <2>1, ReportIsOwn
    <2>3. run'[p].line = run[p].line
        BY <2>2 DEF Own
    <2>4. Sound(p)'
        BY <1>2, <1>3, <1>6, <2>2, <2>3, FlagsStay
        DEF Sound, Early, Unfinished, Opens, AtWork, Named, Torn, Valid, Delivered,
            Succeeded, files
    <2> QED BY <1>2, <2>2, <2>4, QuietStepKeeps
<1>7. CASE ~GivesUp(p, found) /\ ~(LastStage(p) /\ ~Given(p, "--output"))
    <2> DEFINE next == IF LastStage(p)
                       THEN [run[p] EXCEPT !.found = @ \cup found, !.at = "write"]
                       ELSE [run[p] EXCEPT !.found = @ \cup found, !.stage = @ + 1]
    <2>1. /\ found = {}
          /\ run' = [run EXCEPT ![p] = next]
        BY <1>1, <1>7 DEF GivesUp
    <2>2. run[p] \in Runs /\ run'[p] = next
        BY <1>2, <2>1 DEF Typed
    <2>3. /\ next \in Runs /\ next.line = run[p].line /\ next.found = {}
          /\ next.exit = run[p].exit /\ next.at \in {"stages", "write"}
          /\ next.at = "write" => LastStage(p)
        <3>1. /\ run[p] \in Runs /\ run[p].stage + 1 \in Nat
              /\ run[p].found \cup found = {} /\ run[p].at = "stages"
            BY <1>2, <1>3, <2>1, <2>2 DEF Runs
        <3>2. CASE LastStage(p)
            BY <3>1, <3>2 DEF Runs, Places
        <3>3. CASE ~LastStage(p)
            BY <3>1, <3>3 DEF Runs, Places
        <3> QED BY <3>2, <3>3
    <2> HIDE DEF next
    <2>4. Own(p)
        BY <1>2, <2>1, <2>2, <2>3 DEF Typed, Own
    <2>5. run'[p].at = "write" => Exporting(p) /\ Given(p, "--output")
        BY <1>7, <2>2, <2>3 DEF GivesUp
    <2>6. Sound(p)'
        BY <1>2, <1>3, <2>2, <2>3, <2>5, FlagsStay
        DEF Sound, Early, Unfinished, Opens, AtWork, Named, Torn, Valid, Delivered,
            Succeeded, files, NoExit
    <2> QED BY <1>2, <2>4, <2>6, QuietStepKeeps
<1> QED BY <1>5, <1>6, <1>7

LEMMA OpenStageKeeps ==
    ASSUME IInv, NEW p \in Processes, OpenStage(p) PROVE IInv'
<1>1. /\ Typed /\ Sound(p) /\ UNCHANGED files /\ run[p].at = "stages"
      /\ ~Exporting(p)
    BY DEF IInv, OpenStage, Exporting
<1>2. CASE Quit(p, 3)
    BY <1>1, <1>2, QuitKeeps
<1>3. CASE Go(p, "project") \/ Go(p, "server")
    BY <1>1, <1>3, GoOnKeeps
<1>4. CASE run' = [run EXCEPT ![p].stage = @ + 1]
    <2> DEFINE next == [run[p] EXCEPT !.stage = @ + 1]
    <2>1. run[p] \in Runs /\ run'[p] = next
        BY <1>1, <1>4 DEF Typed
    <2>2. /\ next \in Runs /\ next.line = run[p].line /\ next.found = run[p].found
          /\ next.exit = run[p].exit /\ next.at = "stages"
        BY <1>1, <2>1 DEF Runs
    <2> HIDE DEF next
    <2>3. Own(p)
        BY <1>1, <1>4, <2>1, <2>2 DEF Typed, Own
    <2>4. Sound(p)'
        BY <1>1, <2>1, <2>2, FlagsStay
        DEF Sound, Early, Unfinished, Opens, AtWork, Named, Torn, Valid, Delivered,
            Succeeded, files
    <2> QED BY <1>1, <2>3, <2>4, QuietStepKeeps
<1> QED BY <1>2, <1>3, <1>4 DEF OpenStage

LEMMA ReadProjectKeeps ==
    ASSUME IInv, NEW p \in Processes, ReadProject(p) PROVE IInv'
<1>1. Sound(p) /\ UNCHANGED files /\ run[p].at = "project" /\ ~Exporting(p)
    BY DEF IInv, ReadProject, Sound, Opens
<1> QED BY <1>1, QuitKeeps, GoOnKeeps DEF ReadProject

LEMMA ServeKeeps ==
    ASSUME IInv, NEW p \in Processes, Serve(p) PROVE IInv'
<1>1. /\ Typed /\ Sound(p) /\ UNCHANGED files /\ run[p].at = "server"
      /\ ~Exporting(p)
    BY DEF IInv, Serve, Sound, Opens
<1>2. CASE Quit(p, 3)
    BY <1>1, <1>2, QuitKeeps
<1>3. CASE run' = [run EXCEPT ![p].at = "serving", ![p].exit = 0]
    <2> DEFINE next == [run[p] EXCEPT !.at = "serving", !.exit = 0]
    <2>1. run[p] \in Runs /\ run'[p] = next
        BY <1>1, <1>3 DEF Typed
    <2>2. /\ next \in Runs /\ next.line = run[p].line /\ next.found = run[p].found
          /\ next.at = "serving"
        BY <2>1 DEF Runs, Places
    <2> HIDE DEF next
    <2>3. Own(p)
        BY <1>1, <1>3, <2>1, <2>2 DEF Typed, Own
    <2>4. Sound(p)'
        BY <1>1, <2>1, <2>2, FlagsStay
        DEF Sound, Early, Unfinished, Opens, AtWork, Named, Torn, Valid, Delivered,
            Succeeded, files
    <2> QED BY <1>1, <2>3, <2>4, QuietStepKeeps
<1> QED BY <1>2, <1>3 DEF Serve

(* What an export that writes comes to.                                    *)
LEMMA WriteFailsIs ==
    ASSUME IInv, NEW p \in Processes, run[p].at # "done", WriteFails(p)
    PROVE  /\ Own(p) /\ run'[p].at = "done" /\ run'[p].found = {"CLI"}
           /\ run'[p].exit = 2
<1>1. Typed /\ run[p].found = {} /\ {"CLI"} \in SUBSET Kinds
    BY DEF IInv, Sound, Unfinished, Kinds
<1>2. /\ Own(p) /\ run'[p].at = "done" /\ run'[p].found = run[p].found \cup {"CLI"}
      /\ run'[p].exit = IF run'[p].found = {} THEN 0 ELSE ExitCode(run'[p].found)
    BY <1>1, ReportIsOwn DEF WriteFails
<1>3. ExitCode({"CLI"}) = 2
    BY DEF ExitCode
<1> QED BY <1>1, <1>2, <1>3

LEMMA WriteSucceedsIs ==
    ASSUME IInv, NEW p \in Processes, run[p].at # "done", Report(p, {}, TRUE)
    PROVE  /\ Own(p) /\ run'[p].at = "done" /\ run'[p].found = {}
           /\ run'[p].exit = 0
<1>1. Typed /\ run[p].found = {} /\ {} \in SUBSET Kinds
    BY DEF IInv, Sound, Unfinished
<1>2. /\ Own(p) /\ run'[p].at = "done" /\ run'[p].found = run[p].found \cup {}
      /\ run'[p].exit = IF run'[p].found = {} THEN 0 ELSE ExitCode(run'[p].found)
    BY <1>1, ReportIsOwn
<1> QED BY <1>1, <1>2

LEMMA GoIs ==
    ASSUME IInv, NEW p \in Processes, NEW at \in Places, Go(p, at)
    PROVE  /\ Own(p) /\ run'[p].at = at /\ run'[p].found = run[p].found
           /\ run'[p].exit = run[p].exit /\ run'[p].line = run[p].line
    BY GoIsOwn DEF IInv, Own

LEMMA CreateKeeps ==
    ASSUME IInv, NEW p \in Processes, Create(p) PROVE IInv'
<1>1. /\ Typed /\ Sound(p) /\ run[p].at = "write" /\ ~Given(p, "--force")
      /\ Exporting(p) /\ Given(p, "--output")
    BY DEF IInv, Create, Sound, AtWork
<1>2. CASE WriteFails(p) /\ UNCHANGED files
    <2>1. /\ Own(p) /\ run'[p].at = "done" /\ run'[p].found = {"CLI"}
          /\ run'[p].exit = 2
        BY <1>1, <1>2, WriteFailsIs
    <2>2. run'[p].line = run[p].line
        BY <2>1 DEF Own
    <2>3. Sound(p)'
        BY <1>1, <1>2, <2>1, <2>2, FlagsStay
        DEF Sound, Early, Unfinished, Opens, AtWork, Named, Torn, Valid, Delivered,
            Succeeded, files
    <2> QED BY <1>2, <2>1, <2>3, QuietStepKeeps
<1>3. CASE /\ output' = p /\ written' = [written EXCEPT ![p] = "part"]
           /\ Go(p, "writing") /\ UNCHANGED temporary
    <2>1. /\ Own(p) /\ run'[p].at = "writing" /\ run'[p].found = run[p].found
          /\ run'[p].exit = run[p].exit /\ run'[p].line = run[p].line
        BY <1>3, GoIs DEF Places
    <2>2. written'[p] = "part" /\ Frame(p)
        BY <1>1, <1>3 DEF Typed, Frame
    <2>3. Sound(p)'
        BY <1>1, <1>3, <2>1, <2>2, FlagsStay
        DEF Sound, Early, Unfinished, Opens, AtWork, Named, Torn, Valid, Delivered,
            Succeeded, Forces, NoExit
    <2> QED BY <1>1, <1>3, <2>1, <2>2, <2>3, StepKeeps DEF Typed
<1> QED BY <1>2, <1>3 DEF Create

LEMMA CreateTemporaryKeeps ==
    ASSUME IInv, NEW p \in Processes, CreateTemporary(p) PROVE IInv'
<1>1. /\ Typed /\ Sound(p) /\ run[p].at = "write" /\ Given(p, "--force")
      /\ Exporting(p) /\ Given(p, "--output")
    BY DEF IInv, CreateTemporary, Sound, AtWork
<1>2. CASE Go(p, "cleanup") /\ UNCHANGED files
    <2>1. /\ Own(p) /\ run'[p].at = "cleanup" /\ run'[p].found = run[p].found
          /\ run'[p].exit = run[p].exit /\ run'[p].line = run[p].line
        BY <1>2, GoIs DEF Places
    <2>2. Sound(p)'
        BY <1>1, <1>2, <2>1, FlagsStay
        DEF Sound, Early, Unfinished, Opens, AtWork, Named, Torn, Valid, Delivered,
            Succeeded, files, NoExit
    <2> QED BY <1>2, <2>1, <2>2, QuietStepKeeps
<1>3. CASE /\ temporary' = temporary \cup {p} /\ written' = [written EXCEPT ![p] = "part"]
           /\ Go(p, "writing") /\ UNCHANGED output
    <2>1. /\ Own(p) /\ run'[p].at = "writing" /\ run'[p].found = run[p].found
          /\ run'[p].exit = run[p].exit /\ run'[p].line = run[p].line
        BY <1>3, GoIs DEF Places
    <2>2. written'[p] = "part" /\ Frame(p)
        BY <1>1, <1>3 DEF Typed, Frame
    <2>3. Sound(p)'
        BY <1>1, <1>3, <2>1, <2>2, FlagsStay
        DEF Sound, Early, Unfinished, Opens, AtWork, Named, Torn, Valid, Delivered,
            Succeeded, NoExit
    <2> QED BY <1>1, <1>3, <2>1, <2>2, <2>3, StepKeeps DEF Typed
<1> QED BY <1>2, <1>3 DEF CreateTemporary

LEMMA FillKeeps ==
    ASSUME IInv, NEW p \in Processes, Fill(p) PROVE IInv'
<1>1. /\ Typed /\ Sound(p) /\ run[p].at = "writing"
      /\ Exporting(p) /\ Given(p, "--output") /\ written[p] = "part"
    BY DEF IInv, Fill, Sound, AtWork
<1>2. CASE written' = [written EXCEPT ![p] = "whole"] /\ UNCHANGED <<output, temporary>>
    <2>1. written'[p] = "whole" /\ Frame(p)
        BY <1>1, <1>2 DEF Typed, Frame
    <2>2. CASE Given(p, "--force") /\ Go(p, "rename")
        <3>1. /\ Own(p) /\ run'[p].at = "rename" /\ run'[p].found = run[p].found
              /\ run'[p].exit = run[p].exit /\ run'[p].line = run[p].line
            BY <2>2, GoIs DEF Places
        <3>2. Sound(p)'
            BY <1>1, <1>2, <2>1, <2>2, <3>1, FlagsStay
            DEF Sound, Early, Unfinished, Opens, AtWork, Named, Torn, Valid, Delivered,
                Succeeded, NoExit
        <3> QED BY <1>1, <1>2, <2>1, <3>1, <3>2, StepKeeps DEF Typed
    <2>3. CASE ~Given(p, "--force") /\ Report(p, {}, TRUE)
        <3>1. /\ Own(p) /\ run'[p].at = "done" /\ run'[p].found = {}
              /\ run'[p].exit = 0
            BY <1>1, <2>3, WriteSucceedsIs
        <3>2. run'[p].line = run[p].line
            BY <3>1 DEF Own
        <3>3. Sound(p)'
            BY <1>1, <1>2, <2>1, <2>3, <3>1, <3>2, FlagsStay
            DEF Sound, Early, Unfinished, Opens, AtWork, Named, Torn, Valid, Delivered,
                Succeeded
        <3> QED BY <1>1, <1>2, <2>1, <3>1, <3>3, StepKeeps DEF Typed
    <2>4. \/ Given(p, "--force") /\ Go(p, "rename")
          \/ ~Given(p, "--force") /\ Report(p, {}, TRUE)
          \/ UNCHANGED files
        BY DEF Fill
    <2>5. ~UNCHANGED files
        BY <1>1, <2>1 DEF files
    <2> QED BY <2>2, <2>3, <2>4, <2>5
<1>3. CASE Given(p, "--force") /\ Go(p, "cleanup") /\ UNCHANGED files
    <2>1. /\ Own(p) /\ run'[p].at = "cleanup" /\ run'[p].found = run[p].found
          /\ run'[p].exit = run[p].exit /\ run'[p].line = run[p].line
        BY <1>3, GoIs DEF Places
    <2>2. Sound(p)'
        BY <1>1, <1>3, <2>1, FlagsStay
        DEF Sound, Early, Unfinished, Opens, AtWork, Named, Torn, Valid, Delivered,
            Succeeded, files, NoExit
    <2> QED BY <1>3, <2>1, <2>2, QuietStepKeeps
<1>4. CASE ~Given(p, "--force") /\ WriteFails(p) /\ UNCHANGED files
    <2>1. /\ Own(p) /\ run'[p].at = "done" /\ run'[p].found = {"CLI"}
          /\ run'[p].exit = 2
        BY <1>1, <1>4, WriteFailsIs
    <2>2. run'[p].line = run[p].line
        BY <2>1 DEF Own
    <2>3. Sound(p)'
        BY <1>1, <1>4, <2>1, <2>2, FlagsStay
        DEF Sound, Early, Unfinished, Opens, AtWork, Named, Torn, Valid, Delivered,
            Succeeded, files, Forces
    <2> QED BY <1>4, <2>1, <2>3, QuietStepKeeps
<1> QED BY <1>2, <1>3, <1>4 DEF Fill

LEMMA RenameKeeps ==
    ASSUME IInv, NEW p \in Processes, Rename(p) PROVE IInv'
<1>1. /\ Typed /\ Sound(p) /\ run[p].at = "rename" /\ Given(p, "--force")
      /\ Exporting(p) /\ Given(p, "--output") /\ written[p] = "whole"
    BY DEF IInv, Rename, Sound, AtWork
<1>2. CASE /\ output' = p /\ temporary' = temporary \ {p} /\ UNCHANGED written
           /\ Report(p, {}, TRUE)
    <2>1. /\ Own(p) /\ run'[p].at = "done" /\ run'[p].found = {}
          /\ run'[p].exit = 0
        BY <1>1, <1>2, WriteSucceedsIs
    <2>2. run'[p].line = run[p].line
        BY <2>1 DEF Own
    <2>3. Frame(p)
        BY <1>2 DEF Frame
    <2>4. Sound(p)'
        BY <1>1, <1>2, <2>1, <2>2, FlagsStay
        DEF Sound, Early, Unfinished, Opens, AtWork, Named, Torn, Valid, Delivered,
            Succeeded
    <2> QED BY <1>1, <1>2, <2>1, <2>3, <2>4, StepKeeps DEF Typed
<1>3. CASE Go(p, "cleanup") /\ UNCHANGED files
    <2>1. /\ Own(p) /\ run'[p].at = "cleanup" /\ run'[p].found = run[p].found
          /\ run'[p].exit = run[p].exit /\ run'[p].line = run[p].line
        BY <1>3, GoIs DEF Places
    <2>2. Sound(p)'
        BY <1>1, <1>3, <2>1, FlagsStay
        DEF Sound, Early, Unfinished, Opens, AtWork, Named, Torn, Valid, Delivered,
            Succeeded, files, NoExit
    <2> QED BY <1>3, <2>1, <2>2, QuietStepKeeps
<1> QED BY <1>2, <1>3 DEF Rename

LEMMA CleanUpKeeps ==
    ASSUME IInv, NEW p \in Processes, CleanUp(p) PROVE IInv'
<1>1. /\ Typed /\ Sound(p) /\ run[p].at = "cleanup" /\ Given(p, "--force")
      /\ Exporting(p) /\ Given(p, "--output") /\ output # p
    BY DEF IInv, CleanUp, Sound, AtWork, Named
<1>2. /\ temporary' \in {temporary, temporary \ {p}}
      /\ WriteFails(p) /\ UNCHANGED <<output, written>>
    BY DEF CleanUp
<1>3. /\ Own(p) /\ run'[p].at = "done" /\ run'[p].found = {"CLI"}
      /\ run'[p].exit = 2
    BY <1>1, <1>2, WriteFailsIs
<1>4. run'[p].line = run[p].line
    BY <1>3 DEF Own
<1>5. Frame(p) /\ temporary' \subseteq temporary
    BY <1>2 DEF Frame
<1>6. Sound(p)'
    BY <1>1, <1>2, <1>3, <1>4, <1>5, FlagsStay
    DEF Sound, Early, Unfinished, Opens, AtWork, Named, Torn, Valid, Delivered,
        Succeeded
<1> QED BY <1>1, <1>2, <1>3, <1>5, <1>6, StepKeeps DEF Typed

LEMMA CrashKeeps ==
    ASSUME IInv, NEW p \in Processes, Crash(p) PROVE IInv'
<1>1. /\ Typed /\ Sound(p) /\ run[p].at # "done" /\ Go(p, "dead") /\ UNCHANGED files
    BY DEF IInv, Crash
<1>2. /\ Own(p) /\ run'[p].at = "dead" /\ run'[p].found = run[p].found
      /\ run'[p].exit = run[p].exit /\ run'[p].line = run[p].line
    BY <1>1, GoIs DEF Places
<1>3. run[p].exit = NoExit \/ ~Exporting(p)
    BY <1>1 DEF Sound, Unfinished
<1>4. written[p] = "part" /\ output = p => ~Forces(p)
    BY <1>1 DEF Sound, Torn
<1>5. Sound(p)'
    BY <1>1, <1>2, <1>3, <1>4, FlagsStay
    DEF Sound, Early, Unfinished, Opens, AtWork, Named, Torn, Valid, Delivered,
        Succeeded, files, NoExit
<1> QED BY <1>1, <1>2, <1>5, QuietStepKeeps

LEMMA NextKeeps == IInv /\ [Next]_vars => IInv'
<1> SUFFICES ASSUME IInv, [Next]_vars PROVE IInv'
    OBVIOUS
<1>1. CASE UNCHANGED vars
    <2>1. UNCHANGED run /\ UNCHANGED output /\ UNCHANGED temporary /\ UNCHANGED written
        BY <1>1 DEF vars, files
    <2>2. ASSUME NEW p \in Processes PROVE Sound(p)'
        <3>1. Sound(p)
            BY DEF IInv
        <3> QED
            BY <2>1, <3>1, FlagsStay
            DEF Sound, Early, Unfinished, Opens, AtWork, Named, Torn, Valid, Delivered,
                Succeeded
    <2> QED BY <2>1, <2>2 DEF IInv, Typed
<1>2. CASE Next
    <2>1. PICK p \in Processes :
            \/ Start(p) \/ RunStage(p) \/ OpenStage(p) \/ ReadProject(p) \/ Serve(p)
            \/ Create(p) \/ CreateTemporary(p) \/ Fill(p) \/ Rename(p) \/ CleanUp(p)
            \/ Crash(p)
        BY <1>2 DEF Next, Write
    <2> QED BY <2>1, StartKeeps, RunStageKeeps, OpenStageKeeps, ReadProjectKeeps,
               ServeKeeps, CreateKeeps, CreateTemporaryKeeps, FillKeeps, RenameKeeps,
               CleanUpKeeps, CrashKeeps
<1> QED BY <1>1, <1>2

THEOREM InvariantHolds == Spec => []IInv
    BY InitInvariant, NextKeeps, PTL DEF Spec

(* An export makes its file only when the sources, the decisions, the plan *)
(* and the exporter's own checks were in order (export-arazzo-command.ts   *)
(* gives up at each of them before it writes).                             *)
THEOREM WrittenAlwaysValid == Spec => []WrittenOnlyWhenValid
    BY InvariantHolds, InvariantGivesProperties, PTL

(* A partial artifact under the name of the output is never that of an     *)
(* export with --force, and its process is at work, dead, or has told of   *)
(* its failure.                                                            *)
THEOREM TornAlwaysKnown == Spec => []TornIsKnown
    BY InvariantHolds, InvariantGivesProperties, PTL

(* An export that exits with 0 has written the whole artifact or printed   *)
(* it, and left no temporary file.                                         *)
THEOREM SuccessAlwaysDelivers == Spec => []SuccessDelivers
    BY InvariantHolds, InvariantGivesProperties, PTL
-----------------------------------------------------------------------------
(* The file under the name of the output behaves as ArtifactFile promises. *)

(* A run keeps its command line, and with it whether it forces.            *)
LEMMA LinesStay ==
    ASSUME IInv, [Next]_vars, NEW q \in Processes
    PROVE  run'[q].line = run[q].line
<1> USE DEF IInv
<1>1. CASE UNCHANGED vars
    BY <1>1 DEF vars
<1>2. ASSUME NEW p \in Processes, NEW r, run' = [run EXCEPT ![p] = r],
             r.line = run[p].line
      PROVE  run'[q].line = run[q].line
    BY <1>2 DEF Typed
<1>3. ASSUME NEW p \in Processes, Next, run' # run,
             \/ Start(p) \/ RunStage(p) \/ OpenStage(p) \/ ReadProject(p) \/ Serve(p)
             \/ Write(p) \/ Crash(p)
      PROVE  \E r : run' = [run EXCEPT ![p] = r] /\ r.line = run[p].line
    <2>1. run[p] \in Runs
        BY DEF Typed
    <2>2. ASSUME NEW at, Go(p, at)
          PROVE  \E r : run' = [run EXCEPT ![p] = r] /\ r.line = run[p].line
        <3>1. run' = [run EXCEPT ![p] = [@ EXCEPT !.at = at]]
            BY <2>2 DEF Go
        <3>2. [run[p] EXCEPT !.at = at].line = run[p].line
            BY <2>1 DEF Runs
        <3> QED BY <3>1, <3>2
    <2>3. ASSUME NEW code, Quit(p, code)
          PROVE  \E r : run' = [run EXCEPT ![p] = r] /\ r.line = run[p].line
        <3>1. run' = [run EXCEPT ![p] = [@ EXCEPT !.at = "done", !.exit = code]]
            BY <2>3 DEF Quit
        <3>2. [run[p] EXCEPT !.at = "done", !.exit = code].line = run[p].line
            BY <2>1 DEF Runs
        <3> QED BY <3>1, <3>2
    <2>4. ASSUME NEW errors, NEW artifact, Report(p, errors, artifact)
          PROVE  \E r : run' = [run EXCEPT ![p] = r] /\ r.line = run[p].line
        <3>1. PICK found, printed : run' = [run EXCEPT ![p] = ReportOf(@, found, printed)]
            BY <2>4 DEF Report
        <3>2. ReportOf(run[p], found, printed).line = run[p].line
            BY <2>1 DEF Runs, ReportOf
        <3> QED BY <3>1, <3>2
    <2>5. ASSUME NEW found,
                 \/ run' = [run EXCEPT ![p].found = @ \cup found, ![p].at = "write"]
                 \/ run' = [run EXCEPT ![p].found = @ \cup found, ![p].stage = @ + 1]
          PROVE  \E r : run' = [run EXCEPT ![p] = r] /\ r.line = run[p].line
        <3> DEFINE last == [run[p] EXCEPT !.found = @ \cup found, !.at = "write"]
                   next == [run[p] EXCEPT !.found = @ \cup found, !.stage = @ + 1]
        <3>1. run' = [run EXCEPT ![p] = last] \/ run' = [run EXCEPT ![p] = next]
            BY <2>5
        <3>2. last.line = run[p].line /\ next.line = run[p].line
            BY <2>1 DEF Runs
        <3> QED BY <3>1, <3>2
    <2>6. ASSUME \/ run' = [run EXCEPT ![p].stage = @ + 1]
                 \/ run' = [run EXCEPT ![p].at = "serving", ![p].exit = 0]
          PROVE  \E r : run' = [run EXCEPT ![p] = r] /\ r.line = run[p].line
        <3> DEFINE next == [run[p] EXCEPT !.stage = @ + 1]
                   serving == [run[p] EXCEPT !.at = "serving", !.exit = 0]
        <3>1. run' = [run EXCEPT ![p] = next] \/ run' = [run EXCEPT ![p] = serving]
            BY <2>6
        <3>2. next.line = run[p].line /\ serving.line = run[p].line
            BY <2>1 DEF Runs
        <3> QED BY <3>1, <3>2
    <2>7. CASE RunStage(p)
        <3>1. PICK found : \/ Report(p, found, Stage(p) = "export")
                           \/ Report(p, found, TRUE)
                           \/ run' = [run EXCEPT ![p].found = @ \cup found, ![p].at = "write"]
                           \/ run' = [run EXCEPT ![p].found = @ \cup found, ![p].stage = @ + 1]
            BY <2>7 DEF RunStage
        <3> QED BY <3>1, <2>4, <2>5
    <2>8. CASE Start(p) \/ OpenStage(p) \/ ReadProject(p) \/ Serve(p) \/ Crash(p)
        BY <2>2, <2>3, <2>6, <2>8 DEF Start, OpenStage, ReadProject, Serve, Crash
    <2>9. CASE Write(p)
        BY <2>2, <2>4, <2>9 DEF Write, Create, CreateTemporary, Fill, Rename, CleanUp,
                                WriteFails
    <2> QED BY <1>3, <2>7, <2>8, <2>9
<1>4. CASE Next /\ run' # run
    <2>1. PICK p \in Processes :
             \/ Start(p) \/ RunStage(p) \/ OpenStage(p) \/ ReadProject(p) \/ Serve(p)
             \/ Write(p) \/ Crash(p)
        BY <1>4 DEF Next
    <2> QED BY <1>2, <1>3, <1>4, <2>1
<1> QED BY <1>1, <1>4

LEMMA ForcedStays ==
    ASSUME IInv, [Next]_vars
    PROVE  {p \in Processes : Forces(p)}' = {p \in Processes : Forces(p)}
<1>1. \A p \in Processes : Forces(p)' <=> Forces(p)
    BY LinesStay, FlagsStay
<1> QED BY <1>1

(* What leaves the output and what is in its file alone leaves the file.   *)
LEMMA FileStays ==
    ASSUME output' = output, output \in Processes => written'[output] = written[output]
    PROVE  File' = File
    BY DEF File

LEMMA FileOf ==
    ASSUME NEW p \in Processes
    PROVE  /\ output = p => File = [by |-> p, whole |-> written[p] = "whole"]
           /\ output = "absent" => File = [by |-> Nobody, whole |-> FALSE]
    BY LineAssumption DEF File

LEMMA InitImplements == Init => Artifact!Init
<1> SUFFICES ASSUME Init PROVE Artifact!Init
    OBVIOUS
<1>1. File \in {[by |-> Nobody, whole |-> FALSE], [by |-> Nobody, whole |-> TRUE]}
    BY LineAssumption DEF Init, File
<1>2. {p \in Processes : Forces(p)} \in SUBSET Processes
    OBVIOUS
<1> QED BY <1>1, <1>2 DEF Artifact!Init, Artifact!Absent, Artifact!Before,
                          Artifact!Artifact

LEMMA StepImplements ==
    IInv /\ IInv' /\ [Next]_vars
        => [Artifact!Next]_<<File, {p \in Processes : Forces(p)}>>
<1> SUFFICES ASSUME IInv, IInv', [Next]_vars
             PROVE  [Artifact!Next]_<<File, {p \in Processes : Forces(p)}>>
    OBVIOUS
<1> DEFINE forces == {p \in Processes : Forces(p)}
<1>1. forces' = forces
    BY ForcedStays
<1>2. SUFFICES
        \/ File' = File
        \/ \E p \in Processes :
              Artifact!Begin(p) \/ Artifact!Finish(p) \/ Artifact!Replace(p)
    BY <1>1 DEF Artifact!Next
<1>3. CASE UNCHANGED files \/ UNCHANGED vars
    BY <1>3, FileStays DEF vars, files
<1>4. ASSUME NEW p \in Processes, Create(p), ~UNCHANGED files
      PROVE  Artifact!Begin(p)
    <2>1. /\ output = "absent" /\ output' = p /\ written' = [written EXCEPT ![p] = "part"]
          /\ ~Given(p, "--force")
        BY <1>4 DEF Create, MayCreate
    <2>2. written'[p] = "part" /\ p \notin forces
        BY <2>1 DEF IInv, Typed, Forces
    <2>3. File = [by |-> Nobody, whole |-> FALSE] /\ File' = [by |-> p, whole |-> FALSE]
        BY <2>1, <2>2, FileOf DEF File
    <2> QED BY <2>2, <2>3 DEF Artifact!Begin, Artifact!Absent, Artifact!Artifact
<1>5. ASSUME NEW p \in Processes, CreateTemporary(p) PROVE File' = File
    <2>1. output # p /\ output' = output
        BY <1>5 DEF CreateTemporary, IInv, Sound, Early, files
    <2>2. written' = [written EXCEPT ![p] = "part"] \/ written' = written
        BY <1>5 DEF CreateTemporary, files
    <2>3. output \in Processes => written'[output] = written[output]
        BY <2>1, <2>2 DEF IInv, Typed
    <2> QED BY <2>1, <2>3, FileStays
<1>6. ASSUME NEW p \in Processes, Fill(p), ~UNCHANGED files
      PROVE  File' = File \/ Artifact!Finish(p)
    <2>1. /\ written' = [written EXCEPT ![p] = "whole"] /\ output' = output
          /\ run[p].at = "writing"
        BY <1>6 DEF Fill
    <2>2. CASE output # p
        <3>1. output \in Processes => written'[output] = written[output]
            BY <2>1, <2>2 DEF IInv, Typed
        <3> QED BY <2>1, <3>1, FileStays
    <2>3. CASE output = p
        <3>1. written[p] = "part" /\ ~Given(p, "--force") /\ written'[p] = "whole"
            BY <2>1, <2>3 DEF IInv, Typed, Sound, AtWork, Named
        <3>2. p \notin forces
            BY <3>1 DEF Forces
        <3>3. File = [by |-> p, whole |-> FALSE] /\ File' = [by |-> p, whole |-> TRUE]
            BY <2>1, <2>3, <3>1 DEF File
        <3> QED BY <3>2, <3>3 DEF Artifact!Finish, Artifact!Artifact
    <2> QED BY <2>2, <2>3
<1>7. ASSUME NEW p \in Processes, Rename(p), ~UNCHANGED files
      PROVE  Artifact!Replace(p)
    <2>1. output' = p /\ written' = written /\ run[p].at = "rename"
        BY <1>7 DEF Rename
    <2>2. written[p] = "whole" /\ p \in forces
        BY <2>1 DEF IInv, Sound, AtWork, Forces
    <2>3. File' = [by |-> p, whole |-> TRUE]
        BY <2>1, <2>2 DEF File
    <2> QED BY <2>2, <2>3 DEF Artifact!Replace, Artifact!Artifact
<1>8. ASSUME NEW p \in Processes, CleanUp(p) PROVE File' = File
    BY <1>8, FileStays DEF CleanUp
<1>9. ASSUME NEW p \in Processes,
             Start(p) \/ RunStage(p) \/ OpenStage(p) \/ ReadProject(p) \/ Serve(p) \/ Crash(p)
      PROVE  UNCHANGED files
    BY <1>9 DEF Start, RunStage, OpenStage, ReadProject, Serve, Crash
<1> QED BY <1>3, <1>4, <1>5, <1>6, <1>7, <1>8, <1>9 DEF Next, Write

(* Exports that run side by side keep the promise of the file they are     *)
(* told to write: it is replaced only with --force and only by a whole     *)
(* artifact (export-arazzo-command.ts: the flag wx, and rename).           *)
THEOREM Implements == Spec => ImplementsArtifact
<1>1. IInv /\ [Next]_vars /\ IInv'
        => [Artifact!Next]_<<File, {p \in Processes : Forces(p)}>>
    BY StepImplements
<1> QED BY <1>1, InvariantHolds, InitImplements, PTL
        DEF Spec, ImplementsArtifact, Artifact!Spec
-----------------------------------------------------------------------------
(* The stages of a process, and what the parsers compute.                  *)

(* What a parser has read: switches, and values that are words.            *)
OptionsOf(command) == (Switches(command) \X {None}) \cup (Values(command) \X Words)

Readings(command) ==
    [ok : BOOLEAN, target : Words \cup {None}, wants : Values(command) \cup {None},
     given : Seq(OptionsOf(command))]

(* Every argument leads from such a state to one.                          *)
LEMMA RejectedIsReading ==
    ASSUME NEW command, NEW parsed \in Readings(command)
    PROVE  Rejected(parsed) \in Readings(command)
    BY DEF Rejected, Readings

LEMMA ReadArgumentIsReading ==
    ASSUME NEW command, NEW parsed \in Readings(command), NEW argument
    PROVE  ReadArgument(command, parsed, argument) \in Readings(command)
<1>1. Rejected(parsed) \in Readings(command)
    BY RejectedIsReading
<1>2. CASE ReadArgument(command, parsed, argument) \in {parsed, Rejected(parsed)}
    BY <1>1, <1>2
<1>3. ASSUME argument \in Words, parsed.wants # None
      PROVE  [parsed EXCEPT !.given = Append(@, <<parsed.wants, argument>>), !.wants = None]
                \in Readings(command)
    <2>1. parsed.wants \in Values(command) /\ parsed.given \in Seq(OptionsOf(command))
        BY <1>3 DEF Readings
    <2>2. <<parsed.wants, argument>> \in OptionsOf(command)
        BY <1>3, <2>1 DEF OptionsOf
    <2>3. Append(parsed.given, <<parsed.wants, argument>>) \in Seq(OptionsOf(command))
        BY <2>1, <2>2
    <2>4. ASSUME NEW given \in Seq(OptionsOf(command))
          PROVE  [parsed EXCEPT !.given = given, !.wants = None] \in Readings(command)
        BY DEF Readings
    <2>5. QED
        BY <2>3, <2>4
<1>4. ASSUME argument \in Words
      PROVE  [parsed EXCEPT !.target = argument] \in Readings(command)
    BY <1>4 DEF Readings
<1>5. ASSUME argument \in Switches(command)
      PROVE  [parsed EXCEPT !.given = Append(@, <<argument, None>>)] \in Readings(command)
    <2>1. <<argument, None>> \in OptionsOf(command) /\ parsed.given \in Seq(OptionsOf(command))
        BY <1>5 DEF OptionsOf, Readings
    <2>2. Append(parsed.given, <<argument, None>>) \in Seq(OptionsOf(command))
        BY <2>1
    <2>3. ASSUME NEW given \in Seq(OptionsOf(command))
          PROVE  [parsed EXCEPT !.given = given] \in Readings(command)
        BY DEF Readings
    <2>4. QED
        BY <2>2, <2>3
<1>6. ASSUME argument \in Values(command)
      PROVE  [parsed EXCEPT !.wants = argument] \in Readings(command)
    BY <1>6 DEF Readings
<1>7. CASE parsed.ok /\ argument \in Words
    <2>1. ReadArgument(command, parsed, argument) = ReadWord(command, parsed, argument)
        BY <1>7 DEF ReadArgument
    <2>2. QED
        BY <1>1, <1>3, <1>4, <1>7, <2>1 DEF ReadWord
<1>8. CASE parsed.ok /\ argument \notin Words
    <2>1. ReadArgument(command, parsed, argument) = ReadFlag(command, parsed, argument)
        BY <1>8 DEF ReadArgument
    <2>2. QED
        BY <1>1, <1>5, <1>6, <2>1 DEF ReadFlag
<1>9. CASE ~parsed.ok
    BY <1>9 DEF ReadArgument
<1>10. QED
    BY <1>7, <1>8, <1>9

(* The states a parser goes through, and the one it ends in.               *)
Reads(command, arguments, read) ==
    /\ read[0] = Unread
    /\ \A i \in 1 .. Len(arguments) :
          read[i] = ReadArgument(command, read[i - 1], arguments[i])

Comes(command, arguments, parsed) ==
    \E read : /\ DOMAIN read = 0 .. Len(arguments) /\ Reads(command, arguments, read)
              /\ read[Len(arguments)] = parsed

(* They are states of that kind, there is one sequence of them, and the    *)
(* result is what its last one comes to.                                   *)
LEMMA ReadIsReading ==
    ASSUME NEW command, NEW S, NEW arguments \in Seq(S), NEW read, Reads(command, arguments, read)
    PROVE  \A i \in 0 .. Len(arguments) : read[i] \in Readings(command)
<1> DEFINE P == {i \in 0 .. Len(arguments) : read[i] \in Readings(command)}
<1>0. Len(arguments) \in Nat
    OBVIOUS
<1>1. 0 \in P
    <2>1. Unread \in Readings(command)
        BY DEF Unread, Readings
    <2>2. QED
        BY <1>0, <2>1 DEF Reads
<1>2. \A i \in 1 .. Len(arguments) : i - 1 \in P => i \in P
    BY ReadArgumentIsReading DEF Reads
<1>3. \A i \in 0 .. Len(arguments) : i \in P
    <2> HIDE DEF P
    <2> QED BY <1>0, <1>1, <1>2, UpToInduction
<1>4. QED
    BY <1>3

LEMMA ReadOnce ==
    ASSUME NEW command, NEW S, NEW arguments \in Seq(S), NEW read, NEW other,
           Reads(command, arguments, read), Reads(command, arguments, other)
    PROVE  read[Len(arguments)] = other[Len(arguments)]
<1> DEFINE P == {i \in 0 .. Len(arguments) : read[i] = other[i]}
<1>0. Len(arguments) \in Nat
    OBVIOUS
<1>1. 0 \in P
    BY <1>0 DEF Reads
<1>2. \A i \in 1 .. Len(arguments) : i - 1 \in P => i \in P
    BY DEF Reads
<1>3. \A i \in 0 .. Len(arguments) : i \in P
    <2> HIDE DEF P
    <2> QED BY <1>0, <1>1, <1>2, UpToInduction
<1>4. QED
    BY <1>3

LEMMA ReadingExists ==
    ASSUME NEW command, NEW S, NEW arguments \in Seq(S)
    PROVE  \E read \in [0 .. Len(arguments) -> Readings(command)] :
              Reads(command, arguments, read)
<1> DEFINE step == [x \in Int \X Readings(command) |->
                      ReadArgument(command, x[2], arguments[x[1]])]
<1>1. Unread \in Readings(command)
    BY DEF Unread, Readings
<1>2. step \in [Int \X Readings(command) -> Readings(command)]
    BY ReadArgumentIsReading
<1>3. Len(arguments) \in Nat
    OBVIOUS
<1>4. PICK read \in [0 .. Len(arguments) -> Readings(command)] :
        IsRecursion(read, Len(arguments), Unread, step)
    <2> HIDE DEF step
    <2> QED BY <1>1, <1>2, <1>3, RecursionExists
<1>5. ASSUME NEW i \in 1 .. Len(arguments)
      PROVE  read[i] = ReadArgument(command, read[i - 1], arguments[i])
    <2>1. read[i - 1] \in Readings(command)
        BY <1>4
    <2>2. read[i] = step[<<i, read[i - 1]>>]
        BY <1>4 DEF IsRecursion
    <2>3. QED
        BY <2>1, <2>2
<1>6. QED
    BY <1>4, <1>5 DEF Reads, IsRecursion

LEMMA ParseIs ==
    ASSUME NEW command, NEW S, NEW arguments \in Seq(S), NEW parsed,
           Comes(command, arguments, parsed)
    PROVE  Parse(command, arguments) = Finished(command, parsed)
<1> DEFINE Is(f) == f = [i \in 0 .. Len(arguments) |->
                            IF i = 0 THEN Unread
                            ELSE ReadArgument(command, f[i - 1], arguments[i])]
           read == CHOOSE f : Is(f)
<1>1. Parse(command, arguments) = Finished(command, read[Len(arguments)])
    BY DEF Parse
<1>2. PICK f \in [0 .. Len(arguments) -> Readings(command)] : Reads(command, arguments, f)
    BY ReadingExists
<1>3. Is(f)
    <2>1. ASSUME NEW i \in 0 .. Len(arguments)
          PROVE  f[i] = IF i = 0 THEN Unread
                        ELSE ReadArgument(command, f[i - 1], arguments[i])
        BY <1>2 DEF Reads
    <2>2. QED
        BY <1>2, <2>1
<1>4. Is(read)
    <2> HIDE DEF Is
    <2> QED BY <1>3
<1> HIDE DEF read
<1>5. Reads(command, arguments, read)
    BY <1>4 DEF Reads
<1>6. PICK other : Reads(command, arguments, other) /\ other[Len(arguments)] = parsed
    BY DEF Comes
<1>7. QED
    BY <1>1, <1>5, <1>6, ReadOnce

(* One more argument leads one state further.                              *)
LEMMA ComesFromNothing ==
    ASSUME NEW command PROVE Comes(command, <<>>, Unread)
<1>1. DOMAIN [i \in 0 .. 0 |-> Unread] = 0 .. Len(<<>>)
      /\ Reads(command, <<>>, [i \in 0 .. 0 |-> Unread])
      /\ [i \in 0 .. 0 |-> Unread][Len(<<>>)] = Unread
    BY DEF Reads
<1>2. QED
    BY <1>1 DEF Comes

LEMMA ComesOn ==
    ASSUME NEW command, NEW S, NEW arguments \in Seq(S), NEW parsed,
           Comes(command, arguments, parsed), NEW argument
    PROVE  Comes(command, Append(arguments, argument), ReadArgument(command, parsed, argument))
<1> DEFINE n == Len(arguments)
           more == Append(arguments, argument)
<1>1. PICK read : /\ DOMAIN read = 0 .. n /\ Reads(command, arguments, read)
                  /\ read[n] = parsed
    BY DEF Comes
<1> DEFINE next == [i \in 0 .. n + 1 |->
                      IF i <= n THEN read[i] ELSE ReadArgument(command, parsed, argument)]
<1>2. n \in Nat /\ Len(more) = n + 1 /\ more[n + 1] = argument
      /\ \A i \in 1 .. n : more[i] = arguments[i]
    OBVIOUS
<1>3. next[0] = Unread
    BY <1>1, <1>2 DEF Reads
<1>4. ASSUME NEW i \in 1 .. n + 1
      PROVE  next[i] = ReadArgument(command, next[i - 1], more[i])
    <2>1. CASE i <= n
        BY <1>1, <1>2, <2>1 DEF Reads
    <2>2. CASE i = n + 1
        BY <1>1, <1>2, <2>2
    <2>3. QED
        BY <1>2, <2>1, <2>2
<1>5. next[n + 1] = ReadArgument(command, parsed, argument) /\ DOMAIN next = 0 .. n + 1
    BY <1>2
<1> HIDE DEF next, more
<1>6. Reads(command, more, next)
    BY <1>2, <1>3, <1>4 DEF Reads
<1>7. QED
    BY <1>2, <1>5, <1>6 DEF Comes, more

(* What is handed on, and the options about sources, option by option.     *)
HandsOn(f, target, given, result) ==
    /\ f[0] = <<target>> /\ result = f[Len(given)]
    /\ \A n \in 1 .. Len(given) : f[n] = HandOn(f[n - 1], given[n])

Keeps(f, given, result) ==
    /\ f[0] = <<>> /\ result = f[Len(given)]
    /\ \A n \in 1 .. Len(given) : f[n] = Kept(f[n - 1], given[n])

LEMMA ForwardedSteps ==
    ASSUME NEW A, NEW O, NEW parsed, parsed.target \in A, parsed.given \in Seq(O),
           \A a \in Seq(A), o \in O : HandOn(a, o) \in Seq(A)
    PROVE  \E f \in [0 .. Len(parsed.given) -> Seq(A)] :
              HandsOn(f, parsed.target, parsed.given, Forwarded(parsed))
<1> DEFINE given == parsed.given
           k == Len(given)
           V == Seq(A)
           base == <<parsed.target>>
           step == [x \in (1 .. k) \X V |-> HandOn(x[2], given[x[1]])]
           Folds(f) == f = [s \in SUBSET (1 .. k) |->
                              IF s = {} THEN base
                              ELSE HandOn(f[s \ {Max(s)}], given[Max(s)])]
           iter == CHOOSE f : Folds(f)
<1>1. k \in Nat /\ DOMAIN given = 1 .. k /\ base \in V
    <2>1. <<parsed.target>> \in Seq(A)
        OBVIOUS
    <2>2. QED
        BY <2>1
<1>2. Forwarded(parsed) = iter[1 .. k]
    BY <1>1 DEF Forwarded, FoldLeft, MapThenFoldSet
<1>3. step \in [(1 .. k) \X V -> V]
    <2>1. \A i \in 1 .. k : given[i] \in O
        BY <1>1
    <2>2. \A i \in 1 .. k, v \in V : HandOn(v, given[i]) \in V
        BY <2>1
    <2>3. QED
        BY <2>2
<1>4. \A i \in 1 .. k, v \in V : step[<<i, v>>] = HandOn(v, given[i])
    OBVIOUS
<1> HIDE DEF k, base, step, V
<1>5. PICK f \in [SUBSET (1 .. k) -> V] : FoldsLeft(f, k, V, base, step)
    BY <1>1, <1>3, LeftFoldExists
<1>6. \A T \in (SUBSET (1 .. k)) \ {{}} : Max(T) \in 1 .. k
    BY <1>1, GreatestPicks
<1>7. Folds(f)
    <2>1. ASSUME NEW T \in SUBSET (1 .. k)
          PROVE  f[T] = IF T = {} THEN base ELSE HandOn(f[T \ {Max(T)}], given[Max(T)])
        <3>1. f[T \ {Max(T)}] \in V
            BY <1>5
        <3>2. QED
            BY <1>4, <1>5, <1>6, <3>1 DEF FoldsLeft
    <2>2. QED
        BY <1>5, <2>1
<1>8. Folds(iter)
    <2> HIDE DEF Folds
    <2> QED BY <1>7
<1> HIDE DEF iter
<1>9. FoldsLeft(iter, k, V, base, step)
    BY <1>4, <1>6, <1>8 DEF FoldsLeft
<1>10. PICK g \in [0 .. k -> V] : StepsUp(g, k, base, step, iter[1 .. k])
    BY <1>1, <1>3, <1>9, LeftFoldSteps
<1>11. \A n \in 1 .. k : g[n - 1] \in V
    BY <1>1, <1>10
<1>12. \A n \in 1 .. k : g[n] = HandOn(g[n - 1], given[n])
    BY <1>4, <1>10, <1>11 DEF StepsUp
<1>13. QED
    BY <1>2, <1>10, <1>12 DEF k, V, base, StepsUp, HandsOn

LEMMA SourceGivenSteps ==
    ASSUME NEW O, NEW given \in Seq(O)
    PROVE  \E f \in [0 .. Len(given) -> Seq(O)] :
              Keeps(f, given, SourceGiven(given))
<1> DEFINE k == Len(given)
           V == Seq(O)
           base == <<>>
           step == [x \in (1 .. k) \X V |-> Kept(x[2], given[x[1]])]
           Folds(f) == f = [s \in SUBSET (1 .. k) |->
                              IF s = {} THEN base
                              ELSE Kept(f[s \ {Max(s)}], given[Max(s)])]
           iter == CHOOSE f : Folds(f)
<1>1. k \in Nat /\ DOMAIN given = 1 .. k /\ base \in V
    OBVIOUS
<1>2. SourceGiven(given) = iter[1 .. k]
    BY <1>1 DEF SourceGiven, FoldLeft, MapThenFoldSet
<1>3. step \in [(1 .. k) \X V -> V]
    BY DEF Kept
<1>4. \A i \in 1 .. k, v \in V : step[<<i, v>>] = Kept(v, given[i])
    OBVIOUS
<1> HIDE DEF k, base, step, V
<1>5. PICK f \in [SUBSET (1 .. k) -> V] : FoldsLeft(f, k, V, base, step)
    BY <1>1, <1>3, LeftFoldExists
<1>6. \A T \in (SUBSET (1 .. k)) \ {{}} : Max(T) \in 1 .. k
    BY <1>1, GreatestPicks
<1>7. Folds(f)
    <2>1. ASSUME NEW T \in SUBSET (1 .. k)
          PROVE  f[T] = IF T = {} THEN base ELSE Kept(f[T \ {Max(T)}], given[Max(T)])
        <3>1. f[T \ {Max(T)}] \in V
            BY <1>5
        <3>2. QED
            BY <1>4, <1>5, <1>6, <3>1 DEF FoldsLeft
    <2>2. QED
        BY <1>5, <2>1
<1>8. Folds(iter)
    <2> HIDE DEF Folds
    <2> QED BY <1>7
<1> HIDE DEF iter
<1>9. FoldsLeft(iter, k, V, base, step)
    BY <1>4, <1>6, <1>8 DEF FoldsLeft
<1>10. PICK g \in [0 .. k -> V] : StepsUp(g, k, base, step, iter[1 .. k])
    BY <1>1, <1>3, <1>9, LeftFoldSteps
<1>11. \A n \in 1 .. k : g[n - 1] \in V
    BY <1>1, <1>10
<1>12. \A n \in 1 .. k : g[n] = Kept(g[n - 1], given[n])
    BY <1>4, <1>10, <1>11 DEF StepsUp
<1>13. QED
    BY <1>2, <1>10, <1>12 DEF k, V, base, StepsUp, Keeps

HandingOn == {"infer", "review", "export-arazzo"}

(* What validate has read when everything it was handed on was in order.   *)
Read(target, given) == [ok |-> TRUE, target |-> target, wants |-> None, given |-> given]

Passed(arguments, target, given) == Comes("validate", arguments, Read(target, given))

(* Words and flags are told apart, and so are the options about sources.   *)
LEMMA WordsAreNoFlags ==
    ASSUME NEW command \in Commands, NEW word \in Words
    PROVE  word \notin Switches(command) \cup Values(command) /\ word # None
    BY WordAssumption

LEMMA FlagsOfValidate ==
    /\ "validate" \in Commands /\ HandingOn \subseteq Commands
    /\ SourceSwitches \subseteq Switches("validate") /\ Values("validate") = SourceValues
    /\ SourceSwitches \cap SourceValues = {} /\ SourceSwitches \cap Values("validate") = {}
    /\ None \notin SourceValues
    /\ \A command \in HandingOn : /\ SourceSwitches \cap Values(command) = {}
                                  /\ SourceValues \cap Switches(command) = {}
    BY DEF Commands, HandingOn, SourceSwitches, SourceValues, Switches, Values, None

(* A record is known by its fields.                                        *)
LEMMA OneReading ==
    ASSUME NEW target, NEW wants, NEW given,
           NEW r \in [ok : {TRUE}, target : {target}, wants : {wants}, given : {given}]
    PROVE  r = [ok |-> TRUE, target |-> target, wants |-> wants, given |-> given]
    OBVIOUS

LEMMA GivenMore ==
    ASSUME NEW target, NEW given, NEW more
    PROVE  [Read(target, given) EXCEPT !.given = more] = Read(target, more)
<1> DEFINE r == [Read(target, given) EXCEPT !.given = more]
<1>1. r \in [ok : {TRUE}, target : {target}, wants : {None}, given : {more}]
    BY DEF Read
<1> HIDE DEF r
<1>2. r = Read(target, more)
    BY <1>1, OneReading DEF Read
<1>3. QED
    BY <1>2 DEF r

(* A switch about sources is read as it was.                               *)
LEMMA SwitchIsReadAgain ==
    ASSUME NEW S, NEW arguments \in Seq(S), NEW target \in Words, NEW given,
           Passed(arguments, target, given), NEW flag \in SourceSwitches
    PROVE  Passed(Append(arguments, flag), target, Append(given, <<flag, None>>))
<1>1. flag \in Switches("validate") /\ flag \notin Words
    BY FlagsOfValidate, WordsAreNoFlags
<1> DEFINE parsed == Read(target, given)
<1>2. parsed.ok /\ parsed.wants = None /\ parsed.target # None /\ parsed.given = given
    BY WordsAreNoFlags, FlagsOfValidate DEF Read
<1>3. ASSUME NEW more PROVE [parsed EXCEPT !.given = more] = Read(target, more)
    BY GivenMore
<1> HIDE DEF parsed
<1>4. ReadFlag("validate", parsed, flag) =
        [parsed EXCEPT !.given = Append(parsed.given, <<flag, None>>)]
    BY <1>1, <1>2, FlagsOfValidate DEF ReadFlag
<1>5. ReadArgument("validate", parsed, flag) = ReadFlag("validate", parsed, flag)
    BY <1>1, <1>2 DEF ReadArgument
<1>6. [parsed EXCEPT !.given = Append(parsed.given, <<flag, None>>)]
        = Read(target, Append(given, <<flag, None>>))
    BY <1>2, <1>3
<1>7. Comes("validate", Append(arguments, flag), ReadArgument("validate", parsed, flag))
    <2>1. Comes("validate", arguments, parsed)
        BY DEF Passed, parsed
    <2>2. QED
        BY <2>1, ComesOn
<1>8. QED
    BY <1>4, <1>5, <1>6, <1>7 DEF Passed

(* So is an option with a value that suits validate.                       *)
LEMMA ValueIsReadAgain ==
    ASSUME NEW S, NEW arguments \in Seq(S), NEW target \in Words, NEW given,
           Passed(arguments, target, given), NEW flag \in SourceValues, NEW word \in Words,
           Fits("validate", flag, word), flag \in S
    PROVE  Passed(Append(Append(arguments, flag), word), target, Append(given, <<flag, word>>))
<1>1. flag \in Values("validate") /\ flag \notin Words /\ flag # None
    BY FlagsOfValidate, WordsAreNoFlags
<1>2. flag \notin Switches("validate")
    BY FlagsOfValidate DEF Switches, SourceValues, SourceSwitches
<1> DEFINE parsed == Read(target, given)
           wanting == [parsed EXCEPT !.wants = flag]
           done == [wanting EXCEPT !.given = Append(@, <<wanting.wants, word>>), !.wants = None]
<1>3. parsed.ok /\ parsed.wants = None /\ parsed.target # None /\ parsed.given = given
    BY WordsAreNoFlags, FlagsOfValidate DEF Read
<1>4. wanting = [ok |-> TRUE, target |-> target, wants |-> flag, given |-> given]
    <2>1. wanting \in [ok : {TRUE}, target : {target}, wants : {flag}, given : {given}]
        BY DEF Read
    <2> HIDE DEF wanting
    <2>2. QED
        BY <2>1, OneReading
<1>5. done = Read(target, Append(given, <<flag, word>>))
    <2>1. wanting.wants = flag /\ wanting.given = given
        BY <1>4
    <2>2. ASSUME NEW more
          PROVE  [wanting EXCEPT !.given = more, !.wants = None] = Read(target, more)
        <3> DEFINE r == [wanting EXCEPT !.given = more, !.wants = None]
        <3>1. r \in [ok : {TRUE}, target : {target}, wants : {None}, given : {more}]
            BY <1>4
        <3> HIDE DEF r
        <3>2. r = Read(target, more)
            BY <3>1, OneReading DEF Read
        <3>3. QED
            BY <3>2 DEF r
    <2>3. QED
        BY <2>1, <2>2
<1>6. wanting.ok /\ wanting.wants = flag
    BY <1>4
<1>7. wanting = [parsed EXCEPT !.wants = flag]
    OBVIOUS
<1>8. done = [wanting EXCEPT !.given = Append(@, <<wanting.wants, word>>), !.wants = None]
    OBVIOUS
<1> HIDE DEF parsed, wanting, done
<1>9. ReadArgument("validate", parsed, flag) = wanting
    <2>1. ReadArgument("validate", parsed, flag) = ReadFlag("validate", parsed, flag)
        BY <1>1, <1>3 DEF ReadArgument
    <2>2. QED
        BY <1>1, <1>2, <1>3, <1>7, <2>1 DEF ReadFlag
<1>10. ReadArgument("validate", wanting, word) = done
    <2>1. ReadArgument("validate", wanting, word) = ReadWord("validate", wanting, word)
        BY <1>6 DEF ReadArgument
    <2>2. QED
        BY <1>1, <1>6, <1>8, <2>1 DEF ReadWord
<1>11. Comes("validate", Append(arguments, flag), wanting)
    <2>1. Comes("validate", arguments, parsed)
        BY DEF Passed, parsed
    <2>2. QED
        BY <1>9, <2>1, ComesOn
<1>12. Append(arguments, flag) \in Seq(S)
    OBVIOUS
<1>13. Comes("validate", Append(Append(arguments, flag), word), done)
    BY <1>10, <1>11, <1>12, ComesOn
<1>14. QED
    BY <1>5, <1>13 DEF Passed

(* And what is not about sources is not handed on.                         *)
LEMMA OptionIsReadAgain ==
    ASSUME NEW S, NEW command \in HandingOn, NEW option \in OptionsOf(command),
           SourceValues \cup Words \subseteq S, NEW arguments \in Seq(S),
           NEW target \in Words, NEW given, Passed(arguments, target, given),
           Fits("validate", option[1], option[2])
    PROVE  Passed(HandOn(arguments, option), target, Kept(given, option))
<1>1. CASE option[1] \in SourceSwitches
    <2>1. option = <<option[1], None>>
        BY <1>1, FlagsOfValidate DEF OptionsOf
    <2>2. HandOn(arguments, option) = Append(arguments, option[1])
          /\ Kept(given, option) = Append(given, option)
        BY <1>1, FlagsOfValidate DEF HandOn, Kept
    <2>3. Passed(Append(arguments, option[1]), target, Append(given, <<option[1], None>>))
        BY <1>1, SwitchIsReadAgain
    <2>4. QED
        BY <2>1, <2>2, <2>3
<1>2. CASE option[1] \in SourceValues
    <2>1. option = <<option[1], option[2]>> /\ option[2] \in Words
        BY <1>2, FlagsOfValidate DEF OptionsOf
    <2>2. HandOn(arguments, option) = arguments \o option
          /\ Kept(given, option) = Append(given, option)
        BY <1>2, FlagsOfValidate DEF HandOn, Kept
    <2>3. arguments \o option = Append(Append(arguments, option[1]), option[2])
        <3>1. ASSUME NEW a \in S, NEW b \in S
              PROVE  arguments \o <<a, b>> = Append(Append(arguments, a), b)
            OBVIOUS
        <3>2. QED
            BY <1>2, <2>1, <3>1
    <2>4. Passed(Append(Append(arguments, option[1]), option[2]), target,
                 Append(given, <<option[1], option[2]>>))
        BY <1>2, <2>1, ValueIsReadAgain
    <2>5. QED
        BY <2>1, <2>2, <2>3, <2>4
<1>3. CASE option[1] \notin SourceSwitches \cup SourceValues
    BY <1>3 DEF HandOn, Kept
<1>4. QED
    BY <1>1, <1>2, <1>3

(* The target comes first.                                                 *)
LEMMA TargetIsReadAgain ==
    ASSUME NEW target \in Words PROVE Passed(<<target>>, target, <<>>)
<1>1. Unread.ok /\ Unread.wants = None /\ Unread.target = None
    BY DEF Unread
<1>2. ReadArgument("validate", Unread, target) = ReadWord("validate", Unread, target)
    BY <1>1 DEF ReadArgument
<1>3. ReadWord("validate", Unread, target) = [Unread EXCEPT !.target = target]
    BY <1>1 DEF ReadWord
<1>4. [Unread EXCEPT !.target = target] = Read(target, <<>>)
    <2> DEFINE r == [Unread EXCEPT !.target = target]
    <2>1. r \in [ok : {TRUE}, target : {target}, wants : {None}, given : {<<>>}]
        BY DEF Unread
    <2> HIDE DEF r
    <2>2. r = Read(target, <<>>)
        BY <2>1, OneReading DEF Read
    <2>3. QED
        BY <2>2 DEF r
<1>5. Append(<<>>, target) = <<target>> /\ <<>> \in Seq(Words)
    OBVIOUS
<1>6. Comes("validate", Append(<<>>, target), ReadArgument("validate", Unread, target))
    BY <1>5, ComesFromNothing, ComesOn
<1>7. QED
    BY <1>2, <1>3, <1>4, <1>5, <1>6 DEF Passed

(* What is handed on is read as if it had been given to validate, unless a *)
(* value does not suit validate.                                           *)
LEMMA ForwardedIsReadAgain ==
    ASSUME NEW command \in HandingOn, NEW parsed \in Readings(command), parsed.target \in Words,
           \A i \in DOMAIN parsed.given : Fits("validate", parsed.given[i][1], parsed.given[i][2])
    PROVE  /\ Parse("validate", Forwarded(parsed)).ok
           /\ Parse("validate", Forwarded(parsed)).target = parsed.target
           /\ Parse("validate", Forwarded(parsed)).given = SourceGiven(parsed.given)
<1> DEFINE S == SourceSwitches \cup SourceValues \cup Words
           O == OptionsOf(command)
           given == parsed.given
           target == parsed.target
           k == Len(given)
<1>1. given \in Seq(O) /\ k \in Nat
    BY DEF Readings
<1>2. ASSUME NEW arguments \in Seq(S), NEW option \in O
      PROVE  HandOn(arguments, option) \in Seq(S)
    <2>1. CASE option[1] \in SourceSwitches
        BY <2>1, FlagsOfValidate DEF HandOn
    <2>2. CASE option[1] \in SourceValues
        <3>1. option \in Seq(S)
            <4>1. option = <<option[1], option[2]>> /\ option[1] \in S /\ option[2] \in S
                BY <2>2, FlagsOfValidate DEF OptionsOf
            <4>2. \A a \in S, b \in S : <<a, b>> \in Seq(S)
                OBVIOUS
            <4>3. QED
                BY <4>1, <4>2
        <3>2. HandOn(arguments, option) = arguments \o option
            BY <2>2, FlagsOfValidate DEF HandOn
        <3>3. QED
            BY <3>1, <3>2
    <2>3. CASE option[1] \notin SourceSwitches \cup SourceValues
        BY <2>3 DEF HandOn
    <2>4. QED
        BY <2>1, <2>2, <2>3
<1>3. target \in S /\ target \in Words
    OBVIOUS
<1>4. \A i \in 1 .. k : given[i] \in O /\ Fits("validate", given[i][1], given[i][2])
    BY <1>1
<1>5. SourceValues \cup Words \subseteq S
    OBVIOUS
<1>6. PICK f \in [0 .. k -> Seq(S)] : HandsOn(f, target, given, Forwarded(parsed))
    <2> HIDE DEF S, O
    <2> QED BY <1>1, <1>2, <1>3, ForwardedSteps
<1>7. PICK g \in [0 .. k -> Seq(O)] : Keeps(g, given, SourceGiven(given))
    <2> HIDE DEF O
    <2> QED BY <1>1, SourceGivenSteps
<1> HIDE DEF S, O, given, k, target
<1> DEFINE P == {n \in 0 .. k : Passed(f[n], target, g[n])}
<1>8. 0 \in P
    <2>1. f[0] = <<target>> /\ g[0] = <<>> /\ 0 \in 0 .. k
        BY <1>1, <1>6, <1>7 DEF HandsOn, Keeps
    <2>2. QED
        BY <1>3, <2>1, TargetIsReadAgain
<1>9. ASSUME NEW n \in 1 .. k, n - 1 \in P PROVE n \in P
    <2>1. f[n - 1] \in Seq(S) /\ Passed(f[n - 1], target, g[n - 1])
        BY <1>6, <1>9
    <2>2. given[n] \in OptionsOf(command)
        BY <1>4 DEF O
    <2>3. Passed(HandOn(f[n - 1], given[n]), target, Kept(g[n - 1], given[n]))
        BY <1>3, <1>4, <1>5, <2>1, <2>2, OptionIsReadAgain
    <2>4. f[n] = HandOn(f[n - 1], given[n]) /\ g[n] = Kept(g[n - 1], given[n])
        BY <1>6, <1>7 DEF HandsOn, Keeps, k
    <2>5. QED
        BY <2>3, <2>4
<1>10. \A n \in 0 .. k : n \in P
    <2> HIDE DEF P
    <2> QED BY <1>1, <1>8, <1>9, UpToInduction
<1>11. Passed(Forwarded(parsed), target, SourceGiven(given)) /\ Forwarded(parsed) \in Seq(S)
    <2>1. k \in P /\ k \in 0 .. k
        BY <1>1, <1>10
    <2>2. QED
        BY <1>6, <1>7, <2>1 DEF HandsOn, Keeps, k
<1>12. Parse("validate", Forwarded(parsed))
         = Finished("validate", Read(target, SourceGiven(given)))
    BY <1>11, ParseIs DEF Passed
<1>13. /\ Finished("validate", Read(target, SourceGiven(given))).ok
       /\ Finished("validate", Read(target, SourceGiven(given))).target = target
       /\ Finished("validate", Read(target, SourceGiven(given))).given = SourceGiven(given)
    <2> DEFINE r == Read(target, SourceGiven(given))
    <2>1. /\ r.ok = TRUE /\ r.wants = None /\ r.target = target
          /\ r.given = SourceGiven(given)
          /\ DOMAIN r = {"ok", "target", "wants", "given"}
        BY DEF Read
    <2> HIDE DEF r
    <2>2. target # None
        BY <1>3, FlagsOfValidate, WordsAreNoFlags
    <2>3. Complete("validate", r.given)
        BY DEF Complete
    <2>4. /\ Finished("validate", r).ok
          /\ Finished("validate", r).target = r.target
          /\ Finished("validate", r).given = r.given
        BY <2>1, <2>2, <2>3 DEF Finished
    <2>5. QED
        BY <2>1, <2>4 DEF r
<1>14. QED
    BY <1>12, <1>13 DEF given, target

(* What was parsed without an error is such a state, with a target.        *)
LEMMA ParseIsReading ==
    ASSUME NEW command, NEW S, NEW arguments \in Seq(S), Parse(command, arguments).ok
    PROVE  /\ Parse(command, arguments) \in Readings(command)
           /\ Parse(command, arguments).target \in Words
<1>1. PICK read \in [0 .. Len(arguments) -> Readings(command)] :
        Reads(command, arguments, read)
    BY ReadingExists
<1> DEFINE parsed == read[Len(arguments)]
<1>2. parsed \in Readings(command)
    BY <1>1
<1>3. Comes(command, arguments, parsed)
    BY <1>1 DEF Comes
<1>4. Parse(command, arguments) = Finished(command, parsed)
    <2> HIDE DEF parsed
    <2> QED BY <1>3, ParseIs
<1> HIDE DEF parsed
<1>5. Finished(command, parsed).ok => parsed.ok /\ parsed.target # None
    BY <1>2 DEF Finished, Readings
<1>6. Finished(command, parsed) = [parsed EXCEPT !.ok = Finished(command, parsed).ok]
    BY <1>2 DEF Finished, Readings
<1>7. Finished(command, parsed).ok => Finished(command, parsed) = parsed
    <2>1. SUFFICES ASSUME Finished(command, parsed).ok PROVE Finished(command, parsed) = parsed
        OBVIOUS
    <2>2. /\ parsed.ok = TRUE /\ parsed.wants = None /\ parsed.target # None
          /\ Complete(command, parsed.given)
        BY <1>2, <2>1 DEF Finished, Readings
    <2>3. Finished(command, parsed) = [parsed EXCEPT !.ok = TRUE]
        BY <1>2, <2>2 DEF Finished, Readings
    <2>4. QED
        BY <1>2, <2>2, <2>3 DEF Readings
<1>8. QED
    BY <1>2, <1>4, <1>5, <1>7 DEF Readings

(* So every process has read its options alike.                            *)
LEMMA TypedForwardingAgrees == Typed => ForwardingAgrees
<1> SUFFICES ASSUME Typed, NEW p \in Processes,
                    run[p].line.command \in {"infer", "review", "export-arazzo"}, Parsed(p).ok
             PROVE  LET again == Parse("validate", Forwarded(Parsed(p)))
                    IN \/ again.ok /\ again.target = Parsed(p).target
                          /\ again.given = SourceGiven(Parsed(p).given)
                       \/ \E o \in ToSet(Parsed(p).given) : ~Fits("validate", o[1], o[2])
    BY DEF ForwardingAgrees
<1> DEFINE command == run[p].line.command
           arguments == run[p].line.arguments
           parsed == Parsed(p)
<1>1. run[p].line \in UNION {Lines[q] : q \in Processes} /\ command \in HandingOn
    BY DEF Typed, Runs, HandingOn
<1>2. arguments \in Seq(STRING) /\ parsed = Parse(command, arguments)
    BY <1>1, LineAssumption DEF Parsed, Parses
<1> HIDE DEF command, arguments, parsed
<1>3. parsed \in Readings(command) /\ parsed.target \in Words
    BY <1>2, ParseIsReading DEF parsed
<1>4. CASE \A i \in DOMAIN parsed.given :
             Fits("validate", parsed.given[i][1], parsed.given[i][2])
    BY <1>1, <1>3, <1>4, ForwardedIsReadAgain DEF parsed
<1>5. CASE \E i \in DOMAIN parsed.given :
             ~Fits("validate", parsed.given[i][1], parsed.given[i][2])
    BY <1>5 DEF parsed, ToSet
<1>6. QED
    BY <1>4, <1>5

(* A process is at a stage of its command, and comes to the stages only    *)
(* with a command that has some.                                           *)
Staged(p) ==
    /\ run[p].stage \in {1} \cup DOMAIN Stages(run[p].line.command)
    /\ run[p].at = "stages" => run[p].line.command \in Commands

SoundInv == IInv /\ \A p \in Processes : Staged(p)

(* The stages of a command are numbered from 1.                            *)
LEMMA StagesOfCommands ==
    ASSUME NEW command
    PROVE  /\ Len(Stages(command)) \in Nat
           /\ DOMAIN Stages(command) = 1 .. Len(Stages(command))
           /\ command \in Commands => Len(Stages(command)) >= 1
<1> DEFINE Is(stages, n) == Len(stages) = n /\ DOMAIN stages = 1 .. n
<1>1. CASE command = "validate"
    <2>1. Stages(command) = <<"acquire", "detect", "document">>
        BY <1>1 DEF Stages
    <2>2. Is(<<"acquire", "detect", "document">>, 3)
        OBVIOUS
    <2>3. QED
        BY <2>1, <2>2
<1>2. CASE command = "infer"
    <2>1. Stages(command) = <<"process", "declare">>
        BY <1>2 DEF Stages
    <2>2. Is(<<"process", "declare">>, 2)
        OBVIOUS
    <2>3. QED
        BY <2>1, <2>2
<1>3. CASE command = "review"
    <2>1. Stages(command) = <<"process", "declare", "decisions", "materialize">>
        BY <1>3 DEF Stages
    <2>2. Is(<<"process", "declare", "decisions", "materialize">>, 4)
        OBVIOUS
    <2>3. QED
        BY <2>1, <2>2
<1>4. CASE command = "export-arazzo"
    <2>1. Stages(command) =
            <<"process", "declare", "decisions", "materialize", "plan", "export">>
        BY <1>4 DEF Stages
    <2>2. Is(<<"process", "declare", "decisions", "materialize", "plan", "export">>, 6)
        OBVIOUS
    <2>3. QED
        BY <2>1, <2>2
<1>5. CASE command = "open"
    <2>1. Stages(command) = <<"process", "declare", "materialize">>
        BY <1>5 DEF Stages
    <2>2. Is(<<"process", "declare", "materialize">>, 3)
        OBVIOUS
    <2>3. QED
        BY <2>1, <2>2
<1>6. CASE command \notin Commands
    <2>1. Stages(command) = <<>>
        BY <1>6 DEF Stages, Commands
    <2>2. Is(<<>>, 0)
        OBVIOUS
    <2>3. QED
        BY <1>6, <2>1, <2>2
<1>7. QED
    BY <1>1, <1>2, <1>3, <1>4, <1>5, <1>6 DEF Commands

(* What a step does to the stage of the process that takes it.             *)
Advances(r, s) ==
    \/ s.stage = r.stage /\ (s.at # "stages" \/ r.line.command \in Commands \/ r.at = "stages")
    \/ s.at = "stages" /\ r.at = "stages" /\ r.stage # Len(Stages(r.line.command))
       /\ s.stage = r.stage + 1

LEMMA StagesAdvance ==
    ASSUME Typed, NEW p \in Processes,
           \/ Start(p) \/ RunStage(p) \/ OpenStage(p) \/ ReadProject(p) \/ Serve(p)
           \/ Write(p) \/ Crash(p)
    PROVE  \E s : run' = [run EXCEPT ![p] = s] /\ Advances(run[p], s)
<1>1. run[p] \in Runs
    BY DEF Typed
<1>2. ASSUME NEW at, Go(p, at), at # "stages" \/ run[p].line.command \in Commands
      PROVE  \E s : run' = [run EXCEPT ![p] = s] /\ Advances(run[p], s)
    <2> DEFINE s == [run[p] EXCEPT !.at = at]
    <2>1. run' = [run EXCEPT ![p] = s]
        BY <1>2 DEF Go
    <2>2. s.stage = run[p].stage /\ s.at = at
        BY <1>1 DEF Runs
    <2>3. Advances(run[p], s)
        BY <1>2, <2>2 DEF Advances
    <2>4. QED
        BY <2>1, <2>3
<1>3. ASSUME NEW code, Quit(p, code)
      PROVE  \E s : run' = [run EXCEPT ![p] = s] /\ Advances(run[p], s)
    <2> DEFINE s == [run[p] EXCEPT !.at = "done", !.exit = code]
    <2>1. run' = [run EXCEPT ![p] = s]
        BY <1>3 DEF Quit
    <2>2. s.stage = run[p].stage /\ s.at = "done"
        BY <1>1 DEF Runs
    <2>3. Advances(run[p], s)
        BY <2>2 DEF Advances
    <2>4. QED
        BY <2>1, <2>3
<1>4. ASSUME NEW errors, NEW artifact, Report(p, errors, artifact)
      PROVE  \E s : run' = [run EXCEPT ![p] = s] /\ Advances(run[p], s)
    <2>1. PICK found, printed : run' = [run EXCEPT ![p] = ReportOf(@, found, printed)]
        BY <1>4 DEF Report
    <2> DEFINE s == ReportOf(run[p], found, printed)
    <2>2. s.stage = run[p].stage /\ s.at = "done"
        BY <1>1 DEF Runs, ReportOf
    <2>3. Advances(run[p], s)
        BY <2>2 DEF Advances
    <2>4. QED
        BY <2>1, <2>3
<1>5. ASSUME NEW found, run' = [run EXCEPT ![p].found = @ \cup found, ![p].at = "write"]
      PROVE  \E s : run' = [run EXCEPT ![p] = s] /\ Advances(run[p], s)
    <2> DEFINE s == [run[p] EXCEPT !.found = @ \cup found, !.at = "write"]
    <2>1. run' = [run EXCEPT ![p] = s]
        BY <1>5
    <2>2. s.stage = run[p].stage /\ s.at = "write"
        BY <1>1 DEF Runs
    <2>3. Advances(run[p], s)
        BY <2>2 DEF Advances
    <2>4. QED
        BY <2>1, <2>3
<1>6. ASSUME NEW found, ~LastStage(p), run[p].at = "stages",
             \/ run' = [run EXCEPT ![p].found = @ \cup found, ![p].stage = @ + 1]
             \/ run' = [run EXCEPT ![p].stage = @ + 1]
      PROVE  \E s : run' = [run EXCEPT ![p] = s] /\ Advances(run[p], s)
    <2> DEFINE s == [run[p] EXCEPT !.found = @ \cup found, !.stage = @ + 1]
               t == [run[p] EXCEPT !.stage = @ + 1]
    <2>1. run' = [run EXCEPT ![p] = s] \/ run' = [run EXCEPT ![p] = t]
        BY <1>6
    <2>2. /\ s.stage = run[p].stage + 1 /\ s.at = "stages"
          /\ t.stage = run[p].stage + 1 /\ t.at = "stages"
        BY <1>1, <1>6 DEF Runs
    <2>3. Advances(run[p], s) /\ Advances(run[p], t)
        BY <1>6, <2>2 DEF Advances, LastStage
    <2>4. QED
        BY <2>1, <2>3
<1>7. ASSUME run' = [run EXCEPT ![p].at = "serving", ![p].exit = 0]
      PROVE  \E s : run' = [run EXCEPT ![p] = s] /\ Advances(run[p], s)
    <2> DEFINE s == [run[p] EXCEPT !.at = "serving", !.exit = 0]
    <2>1. run' = [run EXCEPT ![p] = s]
        BY <1>7
    <2>2. s.stage = run[p].stage /\ s.at = "serving"
        BY <1>1 DEF Runs
    <2>3. Advances(run[p], s)
        BY <2>2 DEF Advances
    <2>4. QED
        BY <2>1, <2>3
<1>8. CASE Start(p)
    <2>1. \/ Quit(p, 2) \/ Quit(p, 3)
          \/ Go(p, "stages") /\ run[p].line.command \in Commands
        BY <1>8 DEF Start
    <2>2. QED
        BY <1>2, <1>3, <2>1
<1>9. CASE RunStage(p)
    <2>1. run[p].at = "stages"
        BY <1>9 DEF RunStage
    <2>2. PICK found : \/ Report(p, found, Stage(p) = "export")
                       \/ Report(p, found, TRUE)
                       \/ run' = [run EXCEPT ![p].found = @ \cup found, ![p].at = "write"]
                       \/ /\ ~LastStage(p)
                          /\ run' = [run EXCEPT ![p].found = @ \cup found, ![p].stage = @ + 1]
        BY <1>9 DEF RunStage
    <2>3. QED
        BY <1>4, <1>5, <1>6, <2>1, <2>2
<1>10. CASE OpenStage(p)
    <2>1. run[p].at = "stages"
        BY <1>10 DEF OpenStage
    <2>2. \/ Quit(p, 3) \/ Go(p, "project") \/ Go(p, "server")
          \/ ~LastStage(p) /\ run' = [run EXCEPT ![p].stage = @ + 1]
        BY <1>10 DEF OpenStage
    <2>3. QED
        BY <1>2, <1>3, <1>6, <2>1, <2>2
<1>11. CASE ReadProject(p) \/ Serve(p) \/ Crash(p)
    <2>1. \/ Go(p, "server") \/ Quit(p, 3) \/ Go(p, "dead")
          \/ run' = [run EXCEPT ![p].at = "serving", ![p].exit = 0]
        BY <1>11 DEF ReadProject, Serve, Crash
    <2>2. QED
        BY <1>2, <1>3, <1>7, <2>1
<1>12. CASE Write(p)
    <2>1. \/ Go(p, "writing") \/ Go(p, "cleanup") \/ Go(p, "rename")
          \/ Report(p, {}, TRUE) \/ Report(p, {"CLI"}, TRUE)
        BY <1>12 DEF Write, Create, CreateTemporary, Fill, Rename, CleanUp, WriteFails
    <2>2. QED
        BY <1>2, <1>4, <2>1
<1>13. QED
    BY <1>8, <1>9, <1>10, <1>11, <1>12

(* With the invariant above this one is inductive.                         *)
LEMMA SoundNextKeeps == SoundInv /\ [Next]_vars => SoundInv'
<1> SUFFICES ASSUME SoundInv, [Next]_vars PROVE SoundInv'
    OBVIOUS
<1>1. IInv'
    BY NextKeeps DEF SoundInv
<1>2. CASE UNCHANGED vars
    BY <1>1, <1>2 DEF SoundInv, Staged, vars
<1>3. CASE Next
    <2>1. PICK p \in Processes :
             \/ Start(p) \/ RunStage(p) \/ OpenStage(p) \/ ReadProject(p) \/ Serve(p)
             \/ Write(p) \/ Crash(p)
        BY <1>3 DEF Next
    <2>2. PICK s : run' = [run EXCEPT ![p] = s] /\ Advances(run[p], s)
        BY <2>1, StagesAdvance DEF SoundInv, IInv
    <2>3. ASSUME NEW q \in Processes PROVE Staged(q)'
        <3>1. run'[q].line = run[q].line
            BY LinesStay DEF SoundInv
        <3>2. CASE q # p
            <4>1. run'[q] = run[q]
                BY <2>2, <3>2 DEF SoundInv, IInv, Typed
            <4>2. QED
                BY <4>1 DEF SoundInv, Staged
        <3>3. CASE q = p
            <4> DEFINE command == run[p].line.command
                       stages == Stages(command)
            <4>1. run'[p] = s /\ run[p].stage \in Nat
                BY <2>2 DEF SoundInv, IInv, Typed, Runs
            <4>2. Staged(p)
                BY DEF SoundInv
            <4>3. /\ Len(stages) \in Nat
                  /\ (command \in Commands => Len(stages) >= 1)
                BY StagesOfCommands
            <4>4. DOMAIN stages = 1 .. Len(stages)
                BY StagesOfCommands
            <4> HIDE DEF stages
            <4>5. s.stage \in {1} \cup DOMAIN stages
                <5>1. CASE s.stage = run[p].stage
                    BY <4>2, <5>1 DEF Staged, stages
                <5>2. CASE /\ run[p].at = "stages" /\ run[p].stage # Len(stages)
                           /\ s.stage = run[p].stage + 1
                    <6>1. run[p].stage \in 1 .. Len(stages)
                        BY <4>2, <4>3, <4>4, <5>2 DEF Staged, stages
                    <6>2. QED
                        BY <4>3, <4>4, <5>2, <6>1
                <5>3. QED
                    BY <2>2, <5>1, <5>2 DEF Advances, stages
            <4>6. s.at = "stages" => command \in Commands
                BY <2>2, <4>2 DEF Advances, Staged
            <4>7. QED
                BY <3>1, <3>3, <4>1, <4>5, <4>6 DEF Staged, stages
        <3>4. QED
            BY <3>2, <3>3
    <2>4. QED
        BY <1>1, <2>3 DEF SoundInv
<1>4. QED
    BY <1>2, <1>3

LEMMA SoundInit == Init => SoundInv
<1> SUFFICES ASSUME Init PROVE SoundInv
    OBVIOUS
<1>1. PICK line \in [Processes -> UNION {Lines[p] : p \in Processes}] :
        run = [p \in Processes |->
                 [line |-> line[p], at |-> "start", stage |-> 1, found |-> {},
                  printed |-> "nothing", exit |-> NoExit]]
    BY DEF Init
<1>2. \A p \in Processes : run[p].stage = 1 /\ run[p].at = "start"
    BY <1>1
<1>3. \A p \in Processes : Staged(p)
    BY <1>2 DEF Staged
<1>4. QED
    BY <1>3, InitInvariant DEF SoundInv

(* Every process is at a stage of its command and exits with a code of the *)
(* program's, and validate reads what infer, review and export hand on as  *)
(* if it had been given to validate (validate-options.ts and the parsers   *)
(* that share it).                                                         *)
THEOREM ProcessesAlwaysSound == Spec => []ProcessesAreSound
<1>1. SoundInv => ProcessesAreSound
    <2>1. SUFFICES ASSUME SoundInv PROVE TypeOK /\ ForwardingAgrees
        BY DEF ProcessesAreSound
    <2>2. Typed
        BY <2>1 DEF SoundInv, IInv
    <2>3. \A p \in Processes : run[p].exit \in {0, 1, 2, 3, NoExit}
        BY <2>2 DEF Typed, Runs
    <2>4. \A p \in Processes : run[p].stage \in {1} \cup DOMAIN Stages(run[p].line.command)
        BY <2>1 DEF SoundInv, Staged
    <2>5. TypeOK
        BY <2>2, <2>3, <2>4 DEF TypeOK, Typed
    <2>6. QED
        BY <2>2, <2>5, TypedForwardingAgrees
<1>2. QED
    BY <1>1, SoundInit, SoundNextKeeps, PTL DEF Spec
====
