---- MODULE CommandOptions ----
(***************************************************************************)
(* The arguments of the command line (packages/cli/src): validate-options, *)
(* infer-options, review-options and export-arazzo-options.ts and the      *)
(* checks of open-command.ts, one parser for all of them.  Three commands  *)
(* hand the options about sources on to the parser of validate.            *)
(***************************************************************************)
EXTENDS Integers, Sequences, SequencesExt

CONSTANTS
    Words,      \* arguments that do not begin with two dashes
    Urls,       \* those that are URLs
    Number,     \* what a word is as a number, in tenths
    NaN

None == "none"

SourceSwitches == {"--allow-http", "--allow-private-network"}
SourceValues == {"--allow-path", "--max-documents", "--max-total-bytes", "--max-ref-depth"}
Commands == {"validate", "infer", "review", "export-arazzo", "open"}

Switches(command) ==
    CASE command = "open" -> {}
      [] command = "infer" -> SourceSwitches \cup {"--json", "--include-low"}
      [] command = "export-arazzo" -> SourceSwitches \cup {"--json", "--force"}
      [] OTHER -> SourceSwitches \cup {"--json"}

Values(command) ==
    CASE command = "open" -> {"--port", "--project"}
      [] command = "infer" ->
            SourceValues \cup {"--minimum-confidence", "--top-k", "--max-candidates"}
      [] command = "review" -> SourceValues \cup {"--decisions"}
      [] command = "export-arazzo" ->
            SourceValues \cup {"--decisions", "--workflow", "--output", "--format"}
      [] OTHER -> SourceValues

(* A word is not the name of an option.                                    *)
ASSUME WordAssumption ==
    /\ Urls \subseteq Words /\ Number \in [Words -> Int \cup {NaN}]
    /\ None \notin Words
    /\ \A command \in Commands : Words \cap (Switches(command) \cup Values(command)) = {}

IntegerFrom(low, word) ==
    Number[word] # NaN /\ Number[word] % 10 = 0 /\ Number[word] >= 10 * low

(* What is asked of a value where it is read.                              *)
Fits(command, flag, word) ==
    CASE command = "validate" /\ flag \in {"--max-documents", "--max-total-bytes"} ->
            IntegerFrom(1, word)
      [] command = "validate" /\ flag = "--max-ref-depth" -> IntegerFrom(0, word)
      [] command = "infer" /\ flag \notin SourceValues -> Number[word] # NaN
      [] flag = "--format" -> word \in {"yaml", "json"}
      [] flag = "--port" -> IntegerFrom(1, word) /\ Number[word] <= 655350
      [] flag = "--project" -> word \notin Urls
      [] OTHER -> TRUE

(* The options read so far, in order, the flag whose value comes next, and *)
(* whether nothing was wrong.                                              *)
Unread == [ok |-> TRUE, target |-> None, wants |-> None, given |-> <<>>]

Rejected(parsed) == [parsed EXCEPT !.ok = FALSE]

Has(given, flag) == \E i \in DOMAIN given : given[i][1] = flag

ReadWord(command, parsed, word) ==
    IF parsed.wants # None
    THEN IF Fits(command, parsed.wants, word)
         THEN [parsed EXCEPT !.given = Append(@, <<parsed.wants, word>>), !.wants = None]
         ELSE Rejected(parsed)
    ELSE IF parsed.target = None /\ (command = "open" => word \notin Urls)
         THEN [parsed EXCEPT !.target = word]
         ELSE Rejected(parsed)

ReadFlag(command, parsed, flag) ==
    IF \/ parsed.wants # None
       \/ command # "validate" /\ parsed.target = None
       \/ command = "open" /\ Has(parsed.given, flag)
    THEN Rejected(parsed)
    ELSE CASE flag \in Switches(command) ->
                [parsed EXCEPT !.given = Append(@, <<flag, None>>)]
           [] flag \in Values(command) -> [parsed EXCEPT !.wants = flag]
           [] OTHER -> Rejected(parsed)

ReadArgument(command, parsed, argument) ==
    CASE ~parsed.ok -> parsed
      [] parsed.ok /\ argument \in Words -> ReadWord(command, parsed, argument)
      [] OTHER -> ReadFlag(command, parsed, argument)

LastValue(given, flag) ==
    given[CHOOSE i \in DOMAIN given : /\ given[i][1] = flag
                                      /\ \A j \in DOMAIN given : given[j][1] = flag => j <= i][2]

(* What is asked of the options together; a flag given twice counts once,  *)
(* with its last value.                                                    *)
Complete(command, given) ==
    /\ command \in {"review", "export-arazzo"} => Has(given, "--decisions")
    /\ command = "export-arazzo" =>
          /\ Has(given, "--workflow")
          /\ Has(given, "--force") => Has(given, "--output")
    /\ command = "infer" =>
          /\ Has(given, "--minimum-confidence") =>
                Number[LastValue(given, "--minimum-confidence")] \in 0 .. 10
          /\ \A flag \in {"--top-k", "--max-candidates"} :
                Has(given, flag) => IntegerFrom(1, LastValue(given, flag))

Finished(command, parsed) ==
    [parsed EXCEPT !.ok = /\ @ /\ parsed.wants = None /\ parsed.target # None
                          /\ Complete(command, parsed.given)]

Parse(command, arguments) ==
    LET read[i \in 0 .. Len(arguments)] ==
            IF i = 0 THEN Unread ELSE ReadArgument(command, read[i - 1], arguments[i])
    IN Finished(command, read[Len(arguments)])

(* Mutant: the value of an option is not handed on.                        *)
ForwardedFlagsOnly(parsed) ==
    <<parsed.target>> \o
    [i \in DOMAIN SelectSeq(parsed.given, LAMBDA o : o[1] \in SourceSwitches) |->
        SelectSeq(parsed.given, LAMBDA o : o[1] \in SourceSwitches)[i][1]]

HandOn(arguments, option) ==
    CASE option[1] \in SourceSwitches -> Append(arguments, option[1])
      [] option[1] \in SourceValues -> arguments \o option
      [] OTHER -> arguments

(* The arguments handed on to the parser of validate.                      *)
Forwarded(parsed) == FoldLeft(HandOn, <<parsed.target>>, parsed.given)
====
