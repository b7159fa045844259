----------------------------- MODULE HaikuEngine -----------------------------
(***************************************************************************)
(* The search engine as the curiosity pipeline uses it                     *)
(* (agent/agent_core.py:590-618): decompose_query, search_parallel,        *)
(* summarize and extract_noise_topics of HaikuEngine, over the LLM client, *)
(* with the settings that a start has read from config.toml.               *)
(*                                                                         *)
(* Before a start the user may write what he likes into the file; a first  *)
(* start generates it, and may be cut while it does.  main.py does not     *)
(* build the engine yet; the model does what HaikuEngine(config, client)   *)
(* says.  The aborts between the stages are in AutonomousTurn.             *)
(***************************************************************************)
EXTENDS SearchParallel, LlmClient

CONSTANTS
  Raws,         \* the values a user writes into a field
  EditedTogether \* bound on the fields he edits in a section

\* A number is a numeral, nan or inf, which no whole number is.
ASSUME RawsAssumption ==
  /\ \A raw \in Raws : /\ raw.num \in Int
                       /\ raw.type = "int" => raw.text = "numeral"
                       /\ raw.type = "float" => raw.text \in {"numeral", "nan", "inf"}
  /\ EditedTogether \in Nat

VARIABLES
  phase,  \* of the process
  file,   \* config.toml
  wishes, \* history: what the user has written into it
  spoilt, \* history: has a cut, or the user, left no sound file?
  config, \* what load_config has returned, until the client and the engine have it
  stage   \* where the pipeline is

searchVars == vars
loadVars   == <<phase, file, wishes, spoilt, config, settings>>
engineVars == <<searchVars, loadVars, call, stage>>

NoSettings == [max_retries |-> 0, retry_backoff_base |-> Decimal(0), max_subqueries |-> 1]

EngineInit ==
  /\ Init
  /\ phase = "off" /\ file = Absent /\ wishes = <<>> /\ spoilt = FALSE
  /\ config = <<>> /\ settings = NoSettings
  /\ call = Idle /\ stage = "none"

-----------------------------------------------------------------------------
(* The user and the start of the process.                                  *)

\* The edits of one section.
EditsOf(s) ==
  UNION {[fields -> Raws] :
           fields \in {F \in SUBSET DOMAIN Defaults[s] : Cardinality(F) <= EditedTogether}}

\* The tables with some fields of a section written anew.
Edited(tables, s, edits) ==
  LET others == IF s \in DOMAIN tables THEN DOMAIN tables[s] \ DOMAIN edits ELSE {}
  IN  [t \in DOMAIN tables \cup {s} |->
        IF t # s THEN tables[t]
        ELSE [f \in DOMAIN edits \cup others |-> IF f \in others THEN tables[s][f] ELSE edits[f]]]

\* He writes the file himself, or edits the one that was generated.
Edit ==
  /\ phase = "off" /\ ~spoilt /\ wishes = <<>> /\ file.kind # "broken"
  /\ \/ \E s \in Sections : \E edits \in EditsOf(s) :
          /\ wishes' = [t \in {s} |-> edits]
          /\ file' = File("toml", Edited(file.tables, s, edits))
          /\ UNCHANGED spoilt
     \/ file' = Broken /\ spoilt' = TRUE /\ UNCHANGED wishes
  /\ UNCHANGED <<searchVars, phase, config, settings, call, stage>>

\* load_config finds no file: it generates one and returns the defaults.
GenerateDefault ==
  /\ phase = "off" /\ file.kind = "absent"
  /\ phase' = "loaded" /\ file' = GeneratedFile /\ config' = Defaults
  /\ UNCHANGED <<searchVars, wishes, spoilt, settings, call, stage>>

GenerationCut ==
  /\ phase = "off" /\ file.kind = "absent"
  /\ file' \in CutFiles /\ spoilt' = TRUE
  /\ UNCHANGED <<searchVars, phase, wishes, config, settings, call, stage>>

LoadConfig ==
  /\ phase = "off" /\ file.kind = "toml"
  /\ phase' = "loaded" /\ config' = BuildAppConfig(file.tables)
  /\ UNCHANGED <<searchVars, file, wishes, spoilt, settings, call, stage>>

\* The exception of the parser, or of a section that is no table, ends the start.
LoadFails ==
  /\ phase = "off" /\ file.kind = "broken"
  /\ phase' = "refused"
  /\ UNCHANGED <<searchVars, file, wishes, spoilt, config, settings, call, stage>>

Quit ==
  /\ phase \in {"loaded", "refused"}
  /\ phase' = "off" /\ config' = <<>>
  /\ UNCHANGED <<searchVars, file, wishes, spoilt, settings, call, stage>>

\* LLMClient(config) and HaikuEngine(config.agentic_search, client), and a topic.
\* What they do not read is forgotten.
Construct ==
  /\ phase = "loaded"
  /\ phase' = "running" /\ config' = <<>> /\ file' = Absent /\ wishes' = <<>> /\ spoilt' = FALSE
  /\ settings' = [max_retries        |-> config.api.max_retries.num \div 100,
                  retry_backoff_base |-> config.api.retry_backoff_base,
                  max_subqueries     |-> config.agentic_search.max_subqueries.num \div 100]
  /\ stage' = "decompose"
  /\ UNCHANGED <<searchVars, call>>

-----------------------------------------------------------------------------
(* The stages.                                                             *)

PurposeOf == [decompose |-> "agentic_decompose", summarize |-> "agentic_summarize",
              noise |-> "agentic_noise"]

AskModel ==
  /\ stage \in DOMAIN PurposeOf /\ Ask(PurposeOf[stage])
  /\ UNCHANGED <<searchVars, loadVars, stage>>

ModelWorks == LlmStep /\ UNCHANGED <<searchVars, loadVars, stage>>

DecomposeEnds ==
  /\ stage = "decompose" /\ Ended
  /\ DecomposeQuery(settings.max_subqueries)
  /\ HasText <=> pc' = "parallel"
  /\ stage' = IF HasText THEN "search" ELSE "failed"
  /\ Taken
  /\ UNCHANGED loadVars

Searches(step) == step /\ UNCHANGED <<loadVars, call, stage>>

SearchEnds ==
  /\ stage = "search" /\ pc = "returned"
  /\ stage' = "summarize"
  /\ UNCHANGED <<searchVars, loadVars, call>>

SummaryEnds ==
  /\ stage = "summarize" /\ Ended
  /\ stage' = IF HasText THEN "noise" ELSE "failed"
  /\ Taken
  /\ UNCHANGED <<searchVars, loadVars>>

NoiseEnds ==
  /\ stage = "noise" /\ Ended
  /\ stage' = IF HasText THEN "done" ELSE "failed"
  /\ Taken
  /\ UNCHANGED <<searchVars, loadVars>>

Stages == AskModel \/ ModelWorks \/ DecomposeEnds \/ SearchEnds \/ SummaryEnds \/ NoiseEnds

EngineNext ==
  \/ Edit \/ GenerateDefault \/ GenerationCut \/ LoadConfig \/ LoadFails \/ Quit \/ Construct
  \/ Stages
  \/ Searches(Loop) \/ Searches(TakeCall) \/ Searches(\E i \in Calls : Search(i))
  \/ Searches(Expire) \/ Searches(JoinExpires)

\* A request ends by the time-out of the SDK and a pause by itself; the loop of the
\* searches runs and its time-outs come; a search may hang for ever.
EngineSpec ==
  /\ EngineInit /\ [][EngineNext]_engineVars
  /\ WF_engineVars(Stages) /\ WF_engineVars(Searches(Loop)) /\ WF_engineVars(Searches(TakeCall))
  /\ WF_engineVars(Searches(Expire)) /\ WF_engineVars(Searches(JoinExpires))

-----------------------------------------------------------------------------
(* Properties.                                                             *)

EngineTypeOK ==
  /\ TypeOK /\ CallTypeOK
  /\ phase \in {"off", "loaded", "refused", "running"}
  /\ stage \in {"none", "decompose", "search", "summarize", "noise", "done", "failed"}
  /\ settings.max_retries \in Nat /\ settings.max_subqueries \in Nat \ {0}

Respects(value, rule) ==
  /\ value.type = rule.type
  /\ \A least \in rule.min : value.text = "numeral" => value.num >= least
  /\ \A most \in rule.max : value.text # "inf" /\ (value.text = "numeral" => value.num <= most)
  /\ rule.valid # {} => value.text \in rule.valid

\* What the user wants of a field; a whole number will do where a float is asked for.
Wish(s, f) ==
  LET raw == Raw(wishes, s, f)
  IN  IF raw.type = "int" /\ Rules[s][f].type = "float" THEN Decimal(raw.num) ELSE raw

\* Unless a cut or the user has spoilt the file, the program starts, and every value it
\* starts with is of its type and in its range (nan apart, which no comparison
\* catches): the one the user has written if that is so, and the default otherwise,
\* whatever else the section holds and whoever has written the file
\* (config.py:377-445, 867-1041).
ConfigFits ==
  ~spoilt =>
    /\ phase # "refused"
    /\ phase = "loaded" =>
         \A s \in Sections : \A f \in DOMAIN Defaults[s] :
           /\ Respects(config[s][f], Rules[s][f])
           /\ config[s][f] = IF Respects(Wish(s, f), Rules[s][f]) THEN Wish(s, f) ELSE Defaults[s][f]

\* Whatever the file says, every purpose resolves to a request that the API accepts:
\* at least one token, a temperature from 0 to 2 (or the nan that passes the checks)
\* and a model (config.py:1044-1104).
RequestsInRange ==
  phase = "loaded" =>
    \A p \in VALID_PURPOSES :
      LET tokens == GetMaxTokens(config, p)
          temperature == GetTemperature(config, p)
      IN  /\ tokens.type = "int" /\ tokens.num >= 100
          /\ temperature.type = "float"
          /\ temperature.text = "nan" \/ (temperature.text = "numeral" /\ temperature.num \in 0..200)
          /\ GetModel(config, p).type = "str"

\* The pipeline ends, whichever calls fail and whichever searches hang
\* (agentic_search.py:109-113, llm_client.py:157-196).
PipelineEnds == (stage = "decompose") ~> (stage \in {"done", "failed"})
=============================================================================
