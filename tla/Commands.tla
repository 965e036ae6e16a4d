---- MODULE Commands ----
(***************************************************************************)
(* The command line (packages/cli/src): what validate, infer, review,      *)
(* export-arazzo and open do one after the other, where they give up, what *)
(* they report and exit with, and how an export writes its file beside     *)
(* others that write the same one.                                         *)
(*                                                                         *)
(* A step is what a command does between two of its awaits.  What a stage  *)
(* finds is the set of the kinds of its error diagnostics, of which the    *)
(* exit code tells three apart: INT, SRC or CLI, and other ones.           *)
(***************************************************************************)
EXTENDS CommandOptions, FiniteSets

CONSTANTS
    Processes,  \* runs of the command line, side by side
    Nobody,     \* no process
    Lines       \* the command lines each of them may be given

VARIABLES
    run,        \* the state of each process
    output,     \* whose file the path given to --output names
    temporary,  \* the processes whose temporary file is there
    written     \* what is in the file a process made: "none", "part" or "whole"

files == <<output, temporary, written>>
vars == <<run, files>>

ASSUME LineAssumption ==
    /\ Processes # {} /\ DOMAIN Lines = Processes
    /\ \A p \in Processes : \A line \in Lines[p] : line.arguments \in Seq(STRING)
    /\ Processes \cap {Nobody, "absent", "before"} = {}

NoExit == 9

ExitCode(errors) ==
    CASE "INT" \in errors -> 3
      [] "INT" \notin errors /\ errors \cap {"SRC", "CLI"} # {} -> 2
      [] OTHER -> 1

(* What a stage of the pipeline may come to.                               *)
Findings(stage) ==
    CASE stage \in {"process", "document"} ->
            {{}, {"SRC"}, {"other"}, {"SRC", "other"}, {"INT"}}
      [] stage \in {"decisions", "plan"} -> {{}, {"CLI"}, {"other"}}
      [] stage = "acquire" -> {{}, {"SRC"}}
      [] stage = "detect" -> {{}, {"CLI"}}
      [] OTHER -> {{}, {"other"}}

(* The stages of a command; each gives up when it finds an error.  The     *)
(* decision set is read after the inference.                               *)
Stages(command) ==
    CASE command = "validate" -> <<"acquire", "detect", "document">>
      [] command = "infer" -> <<"process", "declare">>
      [] command = "review" -> <<"process", "declare", "decisions", "materialize">>
      [] command = "export-arazzo" ->
            <<"process", "declare", "decisions", "materialize", "plan", "export">>
      [] command = "open" -> <<"process", "declare", "materialize">>
      [] OTHER -> <<>>

(* What each command line is read as.                                      *)
Parses ==
    [line \in UNION {Lines[p] : p \in Processes} |-> Parse(line.command, line.arguments)]

Parsed(p) == Parses[run[p].line]
Given(p, flag) == Has(Parsed(p).given, flag)
Exporting(p) == run[p].line.command = "export-arazzo"

Init ==
    /\ \E line \in [Processes -> UNION {Lines[p] : p \in Processes}] :
          /\ \A p \in Processes : line[p] \in Lines[p]
          /\ run = [p \in Processes |->
                      [line |-> line[p], at |-> "start", stage |-> 1, found |-> {},
                       printed |-> "nothing", exit |-> NoExit]]
    /\ output \in {"absent", "before"}
    /\ temporary = {}
    /\ written = [p \in Processes |-> "none"]

Go(p, at) == run' = [run EXCEPT ![p].at = at]

(* A command that ends without a report: usage on stderr, or what it threw. *)
Quit(p, code) == run' = [run EXCEPT ![p].at = "done", ![p].exit = code]

(* The end of a command that reports.  An export without --output prints   *)
(* the artifact, alone or in the report that --json asks for.              *)
ReportOf(r, found, printed) ==
    [r EXCEPT !.at = "done", !.found = found, !.printed = printed,
              !.exit = IF found = {} THEN 0 ELSE ExitCode(found)]

Report(p, errors, artifact) ==
    LET found == run[p].found \cup errors
        printed == CASE artifact /\ found = {} /\ ~Given(p, "--output") -> "artifact"
                     [] Given(p, "--json") /\ (Given(p, "--output") \/ ~artifact) -> "report"
                     [] OTHER -> "summary"
    IN run' = [run EXCEPT ![p] = ReportOf(@, found, printed)]

(* runCli and the beginning of the commands: wrong arguments are told from *)
(* wrong source options, which the other commands parse again and throw.   *)
Start(p) ==
    /\ run[p].at = "start"
    /\ CASE run[p].line.command \notin Commands -> Quit(p, 2)
         [] run[p].line.command \in Commands /\ ~Parsed(p).ok -> Quit(p, 2)
         [] /\ run[p].line.command \in Commands /\ Parsed(p).ok
            /\ run[p].line.command \in {"infer", "review", "export-arazzo"}
            /\ ~Parse("validate", Forwarded(Parsed(p))).ok -> Quit(p, 3)
         [] OTHER -> Go(p, "stages")
    /\ UNCHANGED files

Stage(p) == Stages(run[p].line.command)[run[p].stage]

LastStage(p) == run[p].stage = Len(Stages(run[p].line.command))

(* Mutant: what the exporter found does not keep the file from being made. *)
GivesUpBefore(p, found) ==
    (found # {} /\ Stage(p) # "export") \/ (LastStage(p) /\ ~Exporting(p))

(* Whether the command ends with what a stage found.                       *)
GivesUp(p, found) == found # {} \/ (LastStage(p) /\ ~Exporting(p))

(* One stage.  The report of an export that came to the exporter has an    *)
(* artifact.                                                               *)
RunStage(p) ==
    /\ run[p].at = "stages" /\ run[p].line.command # "open"
    /\ \E found \in Findings(Stage(p)) :
          CASE GivesUp(p, found) -> Report(p, found, Stage(p) = "export")
            [] ~GivesUp(p, found) /\ LastStage(p) /\ ~Given(p, "--output") ->
                  Report(p, found, TRUE)
            [] OTHER ->
                  IF LastStage(p)
                  THEN run' = [run EXCEPT ![p].found = @ \cup found, ![p].at = "write"]
                  ELSE run' = [run EXCEPT ![p].found = @ \cup found, ![p].stage = @ + 1]
    /\ UNCHANGED files

(* importWorkspace throws what the other commands report; an inference     *)
(* that ran out of time, a source without a fingerprint and a project of   *)
(* another source are errors here.                                         *)
OpenStage(p) ==
    /\ run[p].at = "stages" /\ run[p].line.command = "open"
    /\ \/ Quit(p, 3)
       \/ IF LastStage(p)
          THEN Go(p, IF Given(p, "--project") THEN "project" ELSE "server")
          ELSE run' = [run EXCEPT ![p].stage = @ + 1]
    /\ UNCHANGED files

ReadProject(p) ==
    run[p].at = "project" /\ (Go(p, "server") \/ Quit(p, 3)) /\ UNCHANGED files

Serve(p) ==
    /\ run[p].at = "server"
    /\ \/ run' = [run EXCEPT ![p].at = "serving", ![p].exit = 0]
       \/ Quit(p, 3)
    /\ UNCHANGED files
-----------------------------------------------------------------------------
(* Writing the artifact.  A file a process makes is its own, whatever name *)
(* leads to it.                                                            *)

WriteFails(p) == Report(p, {"CLI"}, TRUE)

(* Mutant: the file is opened whether it is there or not.                  *)
MayCreateAnyway(p) == TRUE

(* The flag wx.                                                            *)
MayCreate(p) == output = "absent"

(* Without --force the file is made under its own name.                    *)
Create(p) ==
    /\ run[p].at = "write" /\ ~Given(p, "--force")
    /\ \/ /\ MayCreate(p)
          /\ output' = p /\ written' = [written EXCEPT ![p] = "part"]
          /\ Go(p, "writing") /\ UNCHANGED temporary
       \/ WriteFails(p) /\ UNCHANGED files

(* With --force under a name no other process uses.                        *)
CreateTemporary(p) ==
    /\ run[p].at = "write" /\ Given(p, "--force")
    /\ \/ /\ temporary' = temporary \cup {p} /\ written' = [written EXCEPT ![p] = "part"]
          /\ Go(p, "writing") /\ UNCHANGED output
       \/ Go(p, "cleanup") /\ UNCHANGED files

Fill(p) ==
    /\ run[p].at = "writing"
    /\ \/ /\ written' = [written EXCEPT ![p] = "whole"] /\ UNCHANGED <<output, temporary>>
          /\ IF Given(p, "--force") THEN Go(p, "rename") ELSE Report(p, {}, TRUE)
       \/ /\ IF Given(p, "--force") THEN Go(p, "cleanup") ELSE WriteFails(p)
          /\ UNCHANGED files

(* Mutant: the temporary file is written after it has its name.            *)
RenameFirst(p) ==
    /\ run[p].at \in {"writing", "rename"} /\ Given(p, "--force")
    /\ output' = p /\ temporary' = temporary \ {p} /\ UNCHANGED written
    /\ Report(p, {}, TRUE)

Rename(p) ==
    /\ run[p].at = "rename"
    /\ \/ /\ output' = p /\ temporary' = temporary \ {p} /\ UNCHANGED written
          /\ Report(p, {}, TRUE)
       \/ Go(p, "cleanup") /\ UNCHANGED files

(* Mutant: a write that failed is cleaned up and forgotten.                *)
CleanUpSilently(p) ==
    /\ run[p].at = "cleanup"
    /\ temporary' = temporary \ {p}
    /\ Report(p, {}, TRUE) /\ UNCHANGED <<output, written>>

(* The temporary file is removed, if that succeeds; the export failed.     *)
CleanUp(p) ==
    /\ run[p].at = "cleanup"
    /\ temporary' \in {temporary, temporary \ {p}}
    /\ WriteFails(p) /\ UNCHANGED <<output, written>>

(* The process is killed, or the machine stops.                            *)
Crash(p) == run[p].at \notin {"done", "dead"} /\ Go(p, "dead") /\ UNCHANGED files

Write(p) == Create(p) \/ CreateTemporary(p) \/ Fill(p) \/ Rename(p) \/ CleanUp(p)

Next ==
    \E p \in Processes :
        \/ Start(p) \/ RunStage(p) \/ OpenStage(p) \/ ReadProject(p) \/ Serve(p)
        \/ Write(p) \/ Crash(p)

Spec == Init /\ [][Next]_vars
-----------------------------------------------------------------------------
Forces(p) == Exporting(p) /\ Given(p, "--force")
Succeeded(p) == run[p].exit = 0

TypeOK ==
    /\ output \in {"absent", "before"} \cup Processes
    /\ temporary \subseteq Processes
    /\ written \in [Processes -> {"none", "part", "whole"}]
    /\ DOMAIN run = Processes
    /\ \A p \in Processes :
          /\ run[p].exit \in {0, 1, 2, 3, NoExit}
          /\ run[p].stage \in {1} \cup DOMAIN Stages(run[p].line.command)

(* An export makes a file only when nothing before was wrong: neither the  *)
(* sources nor the decisions, the plan or the exporter's own checks.       *)
WrittenOnlyWhenValid ==
    \A p \in Processes :
        written[p] # "none" => /\ Exporting(p) /\ Given(p, "--output")
                               /\ run[p].found \subseteq {"CLI"}

(* A partial artifact under the name of the output is that of an export    *)
(* without --force, which is at work, was killed or told of its failure.   *)
TornIsKnown ==
    \A p \in Processes :
        output = p /\ written[p] = "part" =>
            /\ ~Forces(p)
            /\ run[p].at \in {"writing", "dead"} \/ run[p].exit = 2

(* An export that exits with 0 has delivered: the whole artifact is in a   *)
(* file or on stdout, and no temporary file is left.                       *)
SuccessDelivers ==
    \A p \in Processes :
        Exporting(p) /\ Succeeded(p) =>
            /\ p \notin temporary
            /\ IF Given(p, "--output") THEN written[p] = "whole"
                                       ELSE run[p].printed = "artifact"

(* The options about sources mean the same to every command: what infer,   *)
(* review and export hand on is read as if it had been given to validate.  *)
Kept(options, option) ==
    IF option[1] \in SourceSwitches \cup SourceValues THEN Append(options, option) ELSE options
SourceGiven(given) == FoldLeft(Kept, <<>>, given)
ForwardingAgrees ==
    \A p \in Processes :
        run[p].line.command \in {"infer", "review", "export-arazzo"} /\ Parsed(p).ok =>
            LET again == Parse("validate", Forwarded(Parsed(p)))
            IN \/ again.ok /\ again.target = Parsed(p).target
                  /\ again.given = SourceGiven(Parsed(p).given)
               \/ \E o \in ToSet(Parsed(p).given) : ~Fits("validate", o[1], o[2])

(* Every process is at a stage of its command, with an exit code of the    *)
(* program's, and has read its options alike.                              *)
ProcessesAreSound == TypeOK /\ ForwardingAgrees

(* The exports that run side by side implement the promise of ArtifactFile. *)
File == [by |-> IF output \in Processes THEN output ELSE Nobody,
         whole |-> IF output \in Processes THEN written[output] = "whole"
                                           ELSE output = "before"]
Artifact == INSTANCE ArtifactFile
    WITH Exports <- Processes, file <- File, forced <- {p \in Processes : Forces(p)}
ImplementsArtifact == Artifact!Spec
====
