-------------------------------- MODULE Codes --------------------------------
(***************************************************************************)
(* ajax_codes.py: what a SIA code means.  A code is looked up in the table *)
(* of translated codes; one that is not there is classified by the words   *)
(* its English description contains.                                       *)
(***************************************************************************)
EXTENDS Integers, Sequences, FiniteSetsExt

CONSTANT
  Sia  (* External: SIA_CODES of pysiaalarm, from a code to [concerns, words], *)
       (* where words are the needles below that occur in its description.     *)

(* Needles are searched as substrings. *)
ASSUME WordsAreSubstrings ==
  \A c \in DOMAIN Sia :
     /\ Sia[c].words \cap {"alarm", "disarm"} # {} => "arm" \in Sia[c].words
     /\ "restored" \in Sia[c].words => "restore" \in Sia[c].words

NoCode == "?"

Rows(category, severity, codes) == {<<c, category, severity>> : c \in codes}

Table ==
       Rows("burglary", "alarm", {"BA", "BV", "EA", "UA"})
  \cup Rows("burglary", "restore", {"BR", "UR"})
  \cup Rows("burglary", "trouble", {"BT", "UT"})
  \cup Rows("burglary", "info", {"BB", "BU", "BC"})
  \cup Rows("supervision", "trouble", {"BZ", "UY", "FY"})
  \cup Rows("fire", "alarm", {"FA", "FS", "SA"})
  \cup Rows("fire", "restore", {"FR", "SR"})
  \cup Rows("fire", "trouble", {"FT", "FJ"})
  \cup Rows("fire", "info", {"FB", "FU"})
  \cup Rows("gas", "alarm", {"GA"})
  \cup Rows("gas", "restore", {"GR"})
  \cup Rows("gas", "trouble", {"GT"})
  \cup Rows("heat", "alarm", {"KA", "ZA"})
  \cup Rows("heat", "restore", {"KR", "ZR"})
  \cup Rows("heat", "trouble", {"KT"})
  \cup Rows("water", "alarm", {"WA"})
  \cup Rows("water", "restore", {"WR"})
  \cup Rows("water", "trouble", {"WT"})
  \cup Rows("panic", "alarm", {"PA", "HA", "QA"})
  \cup Rows("panic", "restore", {"PR", "HR", "QR"})
  \cup Rows("panic", "trouble", {"PT"})
  \cup Rows("medical", "alarm", {"MA"})
  \cup Rows("medical", "restore", {"MR"})
  \cup Rows("medical", "trouble", {"MT"})
  \cup Rows("tamper", "alarm", {"TA", "JA"})
  \cup Rows("tamper", "restore", {"TR", "XJ"})
  \cup Rows("tamper", "trouble", {"TT", "XS"})
  \cup Rows("arming", "info", {"CL", "CG", "CA", "CP", "CQ", "CF",
                               "NL", "NF", "OP", "OG", "OA", "OQ", "OR"})
  \cup Rows("arming", "trouble", {"CI", "OT"})
  \cup Rows("power", "trouble", {"AT", "YP"})
  \cup Rows("power", "restore", {"AR", "YQ"})
  \cup Rows("battery", "trouble", {"YT", "YM", "XT"})
  \cup Rows("battery", "restore", {"YR", "XR"})
  \cup Rows("system", "info", {"RR", "RN"})
  \cup Rows("system", "trouble", {"YX", "YW"})
  \cup Rows("rf", "trouble", {"XQ"})
  \cup Rows("rf", "restore", {"XH"})
  \cup Rows("communication", "trouble", {"YC", "LT", "YS", "YB"})
  \cup Rows("communication", "restore", {"YK", "LR"})
  \cup Rows("access", "info", {"DG", "DO", "DC"})
  \cup Rows("access", "trouble", {"DD", "DK"})
  \cup Rows("test", "heartbeat", {"RP"})
  \cup Rows("test", "info", {"RX", "TS", "TE", "FI", "FK"})
  \cup Rows("config", "info", {"YG", "RB", "RS", "LB", "LS", "LX"})

(* Contact ID says a restoral with the H variants. *)
ContactIdTable ==
       Rows("burglary", "restore", {"BH", "UH"})
  \cup Rows("burglary", "trouble", {"EE"})
  \cup Rows("fire", "restore", {"FH", "SH"})
  \cup Rows("gas", "restore", {"GH"})
  \cup Rows("heat", "restore", {"KH", "ZH"})
  \cup Rows("water", "restore", {"WH"})
  \cup Rows("panic", "restore", {"PH", "PJ", "HH", "QH"})
  \cup Rows("panic", "trouble", {"HT"})
  \cup Rows("medical", "restore", {"MH"})
  \cup Rows("tamper", "restore", {"TH"})
  \cup Rows("arming", "info", {"CB", "OB", "CS", "OS", "OC"})
  \cup Rows("arming", "trouble", {"OI"})
  \cup Rows("access", "alarm", {"DF"})
  \cup Rows("access", "restore", {"DH"})
  \cup Rows("system", "trouble", {"ET"})
  \cup Rows("system", "restore", {"ER", "YH"})
  \cup Rows("system", "info", {"RC", "RO", "YY", "YZ"})
  \cup Rows("supervision", "trouble", {"NA"})
  \cup Rows("test", "info", {"FX", "TX"})
  \cup Rows("config", "info", {"JD", "JT", "JS", "JL"})
  \cup Rows("config", "trouble", {"JO"})

(* What the program says itself; the hub never sends these. *)
INTERNAL_CODES ==
       Rows("supervision", "alarm", {"HUBOFF"})
  \cup Rows("supervision", "restore", {"HUBON"})
  \cup Rows("test", "info", {"SELFTEST"})
  \cup Rows("system", "trouble", {"DBFAIL", "CLOCKOFF"})
  \cup Rows("system", "restore", {"DBOK", "CLOCKOK"})

Translated == Table \cup ContactIdTable
Translation(c, table) == CHOOSE row \in table : row[1] = c
In(c, table) == \E row \in table : row[1] = c

(* SIA has none of the codes the program made up. *)
ASSUME OwnCodesAreNoSia == \A c \in DOMAIN Sia : c # NoCode /\ ~In(c, INTERNAL_CODES)

-----------------------------------------------------------------------------
ARM_CODES       == {"CL", "CG", "CA", "CP", "CQ", "CF", "CB", "CS", "NL", "NF"}
DISARM_CODES    == {"OP", "OG", "OA", "OQ", "OR", "OB", "OS"}
NIGHT_ARM_CODES == {"NL", "NF"}

(* Codes about one group; all the others are about the whole installation. *)
AREA_ARM_CODES   == {"CG", "CA", "CB", "NL", "NF", "OG", "OA", "OB"}
SYSTEM_ARM_CODES == (ARM_CODES \cup DISARM_CODES) \ AREA_ARM_CODES

-----------------------------------------------------------------------------
(* _guess: the first hint whose needle occurs in the text decides. *)
SeverityHints ==
  << <<"restoral", "restore">>, <<"restore", "restore">>, <<"restored", "restore">>,
     <<"alarm", "alarm">>, <<"trouble", "trouble">>, <<"fail", "trouble">>,
     <<"missing", "trouble">>, <<"tamper", "alarm">>, <<"test", "heartbeat">> >>

CategoryHints ==
  << <<"burglary", "burglary">>, <<"fire", "fire">>, <<"smoke", "fire">>,
     <<"sprinkler", "fire">>, <<"gas", "gas">>, <<"heat", "heat">>, <<"freeze", "heat">>,
     <<"water", "water">>, <<"panic", "panic">>, <<"holdup", "panic">>,
     <<"duress", "panic">>, <<"emergency", "panic">>, <<"medical", "medical">>,
     <<"tamper", "tamper">>, <<"closing", "arming">>, <<"opening", "arming">>,
     <<"arm", "arming">>, <<"disarm", "arming">>, <<"battery", "battery">>,
     <<"power", "power">>, <<"ac ", "power">>, <<"rf ", "rf">>,
     <<"communication", "communication">>, <<"phone", "communication">>,
     <<"supervision", "supervision">>, <<"access", "access">>, <<"door", "access">>,
     <<"test", "test">>, <<"program", "config">> >>

FirstHint(hints, words, default) ==
  LET found == {i \in DOMAIN hints : hints[i][1] \in words}
  IN  IF found = {} THEN default ELSE hints[Min(found)][2]

(* Mutant: the last hint decides. *)
GuessLast(words) ==
  LET last(hints, default) ==
        LET found == {i \in DOMAIN hints : hints[i][1] \in words}
        IN  IF found = {} THEN default ELSE hints[Max(found)][2]
  IN  [category |-> last(CategoryHints, "system"), severity |-> last(SeverityHints, "info")]

Guess(words) ==
  [category |-> FirstHint(CategoryHints, words, "system"),
   severity |-> FirstHint(SeverityHints, words, "info")]

(* What the number in a message refers to: SIA says so, except that the hub   *)
(* sends the user with NL and NF.  Whatever is not listed has no name here.    *)
SubjectOf(concerns) ==
  CASE concerns \in {"Zone or point", "Zone number", "Point number", "Device number",
                     "Door number", "Relay number", "Output number", "Expander number",
                     "Expansion device number", "Receiver number"} -> "device"
    [] concerns \in {"User number", "User"} -> "user"
    [] concerns = "Area number" -> "area"
    [] OTHER -> "none"

Subject(c) ==
  IF c \in {"NL", "NF"} THEN "user"
  ELSE IF c \in DOMAIN Sia THEN SubjectOf(Sia[c].concerns)
  ELSE "none"

Info(row, subject) ==
  [category |-> row[2], severity |-> row[3], known |-> TRUE, subject |-> subject]

(* describe.  A code nobody knows keeps the default subject of CodeInfo. *)
Describe(c) ==
  IF c = NoCode
    THEN [category |-> "unknown", severity |-> "unknown", known |-> FALSE, subject |-> "none"]
  ELSE IF In(c, INTERNAL_CODES) THEN Info(Translation(c, INTERNAL_CODES), "none")
  ELSE IF In(c, Translated) THEN Info(Translation(c, Translated), Subject(c))
  ELSE IF c \in DOMAIN Sia
    THEN LET guess == Guess(Sia[c].words)
         IN  [category |-> guess.category, severity |-> guess.severity,
              known |-> FALSE, subject |-> Subject(c)]
  ELSE [category |-> "unknown", severity |-> "unknown", known |-> FALSE, subject |-> "device"]
=============================================================================
