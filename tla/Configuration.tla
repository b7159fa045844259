---------------------------- MODULE Configuration ----------------------------
(***************************************************************************)
(* config.toml as core/config.py reads and writes it: the defaults, the    *)
(* rule of every field, the coercion of what the file says, the file of a  *)
(* first start, and what a purpose of the LLM client resolves to.          *)
(*                                                                         *)
(* A number is a whole number of hundredths and has the text "numeral",    *)
(* but nan and inf.  Arrays, tables and dates are of the type "other".     *)
(***************************************************************************)
EXTENDS Integers, Sequences, FiniteSets

Value(type, num, text) == [type |-> type, num |-> num, text |-> text]

Yes        == Value("bool", 100, "none")
No         == Value("bool", 0, "none")
Whole(n)   == Value("int", 100 * n, "numeral")
Decimal(h) == Value("float", h, "numeral")
Str(s)     == Value("str", 0, s)
Nan        == Value("float", 0, "nan")
Inf        == Value("float", 0, "inf")
Other      == Value("other", 0, "none")

-----------------------------------------------------------------------------
(* The dataclasses: the defaults.                                          *)

GeneralConfig == [persona_frozen |-> No, data_dir |-> Str("./data")]

Haiku == Str("claude-haiku-4-5-20251001")
ModelsConfig == [f \in {"conversation", "memory_worker", "utility", "wizard"} |-> Haiku]

WizardConfig ==
  [association_count |-> Whole(5), temperature |-> Decimal(90), candidate_count |-> Whole(3),
   blank_freeze_threshold |-> Whole(20)]

ConversationConfig == [temperature |-> Decimal(70), max_tokens |-> Whole(1024)]

GuiConfig ==
  [window_width |-> Whole(400), window_height |-> Whole(450), opacity |-> Decimal(95),
   topmost |-> Yes, font_size |-> Whole(14), font_family |-> Str("empty")]

MemoryConfig == [warm_days |-> Whole(5), cold_top_k |-> Whole(5), consistency_interval |-> Whole(15)]

ApiConfig == [max_retries |-> Whole(3), retry_backoff_base |-> Decimal(200), timeout |-> Whole(30)]

TrayConfig == [minimize_to_tray |-> Yes]

LoggingConfig ==
  [level |-> Str("INFO"), file_level |-> Str("DEBUG"), max_bytes |-> Whole(5 * 1024 * 1024),
   backup_count |-> Whole(3)]

DesireConfig ==
  [update_interval_sec |-> Decimal(750),
   talk_threshold |-> Decimal(70), curiosity_threshold |-> Decimal(60),
   reflect_threshold |-> Decimal(80), rest_threshold |-> Decimal(90),
   idle_minutes_for_talk |-> Decimal(3000), idle_minutes_for_curiosity |-> Decimal(1500),
   reflect_episode_threshold |-> Whole(20),
   rest_hours_threshold |-> Decimal(400), rest_suppress_minutes |-> Decimal(6000)]

AgenticSearchConfig ==
  [engine |-> Str("haiku"), search_api |-> Str("duckduckgo"),
   max_subqueries |-> Whole(3), max_concurrent_searches |-> Whole(3), max_pending_targets |-> Whole(20)]

Defaults ==
  [general |-> GeneralConfig, models |-> ModelsConfig, wizard |-> WizardConfig,
   conversation |-> ConversationConfig, gui |-> GuiConfig, memory |-> MemoryConfig,
   api |-> ApiConfig, tray |-> TrayConfig, logging |-> LoggingConfig,
   desire |-> DesireConfig, agentic_search |-> AgenticSearchConfig]

Sections == DOMAIN Defaults

-----------------------------------------------------------------------------
(* The section parsers: the rule of every field.  "min" and "max" hold at  *)
(* most one number; "valid" holds the texts of an enumeration.             *)

Rule(type, min, max, valid) == [type |-> type, min |-> min, max |-> max, valid |-> valid]

Of(type)             == Rule(type, {}, {}, {})
AtLeast(type, least) == Rule(type, {least}, {}, {})
Within(least, most)  == Rule("float", {least}, {most}, {})
OneOf(texts)         == Rule("str", {}, {}, texts)

ParseGeneral == [persona_frozen |-> Of("bool"), data_dir |-> Of("str")]

ParseModels == [f \in {"conversation", "memory_worker", "utility", "wizard"} |-> Of("str")]

ParseWizard ==
  [association_count |-> AtLeast("int", 100), temperature |-> Within(0, 200),
   candidate_count |-> AtLeast("int", 100), blank_freeze_threshold |-> AtLeast("int", 0)]

ParseConversation == [temperature |-> Within(0, 200), max_tokens |-> AtLeast("int", 100)]

ParseGui ==
  [window_width |-> AtLeast("int", 100), window_height |-> AtLeast("int", 100),
   opacity |-> Within(0, 100), topmost |-> Of("bool"),
   font_size |-> AtLeast("int", 100), font_family |-> Of("str")]

ParseMemory ==
  [warm_days |-> AtLeast("int", 0), cold_top_k |-> AtLeast("int", 100),
   consistency_interval |-> AtLeast("int", 0)]

ParseApi ==
  [max_retries |-> AtLeast("int", 0), retry_backoff_base |-> AtLeast("float", 0),
   timeout |-> AtLeast("int", 100)]

ParseTray == [minimize_to_tray |-> Of("bool")]

ParseLogging ==
  [level |-> Of("str"), file_level |-> Of("str"),
   max_bytes |-> AtLeast("int", 0), backup_count |-> AtLeast("int", 0)]

ParseDesire ==
  [update_interval_sec |-> AtLeast("float", 10),
   talk_threshold |-> Within(0, 100), curiosity_threshold |-> Within(0, 100),
   reflect_threshold |-> Within(0, 100), rest_threshold |-> Within(0, 100),
   idle_minutes_for_talk |-> AtLeast("float", 0), idle_minutes_for_curiosity |-> AtLeast("float", 0),
   reflect_episode_threshold |-> AtLeast("int", 100),
   rest_hours_threshold |-> AtLeast("float", 0), rest_suppress_minutes |-> AtLeast("float", 0)]

ParseAgenticSearch ==
  [engine |-> OneOf({"haiku", "local"}), search_api |-> OneOf({"duckduckgo", "brave"}),
   max_subqueries |-> AtLeast("int", 100), max_concurrent_searches |-> AtLeast("int", 100),
   max_pending_targets |-> AtLeast("int", 100)]

Rules ==
  [general |-> ParseGeneral, models |-> ParseModels, wizard |-> ParseWizard,
   conversation |-> ParseConversation, gui |-> ParseGui, memory |-> ParseMemory,
   api |-> ParseApi, tray |-> ParseTray, logging |-> ParseLogging,
   desire |-> ParseDesire, agentic_search |-> ParseAgenticSearch]

-----------------------------------------------------------------------------
(* The coercion.                                                           *)

\* The types are exact: a bool is no int.
IsValidType(value, type) == value.type \in {type} \cup (IF type = "float" THEN {"int"} ELSE {})

\* Comparisons with nan are false; inf is above every bound.
IsBelow(value, least) == value.text = "numeral" /\ value.num < least
IsAbove(value, most)  == value.text = "inf" \/ (value.text = "numeral" /\ value.num > most)

\* float() of a whole number.
Converted(raw, type) == IF type = "float" /\ raw.type = "int" THEN Value("float", raw.num, raw.text) ELSE raw

\* Slip: the bounds of a number are not looked at when the file says a whole number.
CoerceFieldBoundsFloats(raw, rule, default) ==
  IF \/ ~IsValidType(raw, rule.type)
     \/ rule.type = raw.type /\ \E least \in rule.min : IsBelow(raw, least)
     \/ rule.type = raw.type /\ \E most \in rule.max : IsAbove(raw, most)
  THEN default
  ELSE Converted(raw, rule.type)

CoerceField(raw, rule, default) ==
  LET value == Converted(raw, rule.type)
  IN  IF \/ ~IsValidType(raw, rule.type)
         \/ \E least \in rule.min : IsBelow(value, least)
         \/ \E most \in rule.max : IsAbove(value, most)
      THEN default
      ELSE value

CoerceEnum(raw, rule, default) ==
  IF rule.valid # {} /\ raw.text \notin rule.valid THEN default ELSE raw

\* A table that is missing, and a field that is missing in its table, stand for the
\* defaults.
Raw(tables, s, f) ==
  IF s \in DOMAIN tables /\ f \in DOMAIN tables[s] THEN tables[s][f] ELSE Defaults[s][f]

BuildAppConfig(tables) ==
  [s \in Sections |->
    [f \in DOMAIN Defaults[s] |->
      LET rule    == Rules[s][f]
          default == Defaults[s][f]
      IN  CoerceEnum(CoerceField(Raw(tables, s, f), rule, default), rule, default)]]

-----------------------------------------------------------------------------
(* The file.                                                               *)

File(kind, tables) == [kind |-> kind, tables |-> tables]
Absent == File("absent", <<>>)
Broken == File("broken", <<>>)  \* no TOML, or a section that is no table

\* What an f-string makes of a default: a bool becomes a lower-case word, a float keeps
\* its point, a text gets quotes.
Literal(value) ==
  IF value.type = "bool" THEN Value("word", 0, IF value.num = 0 THEN "false" ELSE "true") ELSE value

IsToml(literal)    == literal.type = "word" => literal.text \in {"true", "false"}
ReadToml(literal)  == IF literal.type = "word" THEN (IF literal.text = "true" THEN Yes ELSE No) ELSE literal

\* generate_default_config, as tomllib reads its file.
GeneratedFile ==
  IF \A s \in Sections : \A f \in DOMAIN Defaults[s] : IsToml(Literal(Defaults[s][f]))
  THEN File("toml", [s \in Sections |->
                      [f \in DOMAIN Defaults[s] |-> ReadToml(Literal(Defaults[s][f]))]])
  ELSE Broken

\* The order of the sections in the file.
SectionOrder ==
  <<"general", "models", "wizard", "conversation", "gui", "memory", "api", "tray",
    "logging", "desire", "agentic_search">>

\* A write that was cut: the sections before the cut, and of the line it fell in
\* nothing, no TOML, or a whole number without its last digit.
Kept(k) == {SectionOrder[i] : i \in 1..k}

CutBetween(k) == [s \in Kept(k) |-> Defaults[s]]

Shorter(value) == Whole(value.num \div 1000)
CutWithin(k, line) ==
  [s \in Kept(k) |-> [f \in DOMAIN Defaults[s] |->
    IF s = SectionOrder[k] /\ f = line THEN Shorter(Defaults[s][f]) ELSE Defaults[s][f]]]

WithDigits(s) ==
  {f \in DOMAIN Defaults[s] : Defaults[s][f].type = "int" /\ Defaults[s][f].num >= 1000}

CutFiles ==
  {Broken} \cup {File("toml", CutBetween(k)) : k \in 0..Len(SectionOrder)}
  \cup UNION {{File("toml", CutWithin(k, line)) : line \in WithDigits(SectionOrder[k])} :
                k \in 1..Len(SectionOrder)}

-----------------------------------------------------------------------------
(* Purposes of the LLM client.                                             *)

VALID_PURPOSES ==
  {"conversation", "wizard_generate", "wizard_preview", "wizard_association",
   "memory_worker", "memory_summary", "human_block_update", "poke", "autonomous_talk",
   "agentic_decompose", "agentic_summarize", "agentic_noise"}

MAX_TOKENS_MAP ==
  [wizard_generate |-> 2048, wizard_preview |-> 1024, wizard_association |-> 512,
   memory_worker |-> 800, memory_summary |-> 800, human_block_update |-> 256, poke |-> 256,
   autonomous_talk |-> 256, agentic_decompose |-> 256, agentic_summarize |-> 512,
   agentic_noise |-> 256]

PURPOSE_MODEL_SLOTS ==
  [p \in VALID_PURPOSES |->
    CASE p \in {"conversation", "poke", "wizard_preview", "autonomous_talk"} -> "conversation"
      [] p \in {"wizard_generate", "wizard_association"} -> "wizard"
      [] p \in {"memory_worker", "memory_summary"} -> "memory_worker"
      [] OTHER -> "utility"]

\* None: the temperature of the conversation.
None == Value("none", 0, "none")
PURPOSE_TEMPERATURES ==
  [conversation |-> None, wizard_preview |-> None, poke |-> None,
   wizard_generate |-> Decimal(90), wizard_association |-> Decimal(90),
   memory_worker |-> Decimal(30), memory_summary |-> Decimal(30),
   human_block_update |-> Decimal(30), autonomous_talk |-> Decimal(90),
   agentic_decompose |-> Decimal(30), agentic_summarize |-> Decimal(30), agentic_noise |-> Decimal(50)]

Unresolved == Value("error", 0, "none")

\* Slip: the conversation is looked up in the map as well.
GetMaxTokensMapped(config, purpose) ==
  IF purpose \in DOMAIN MAX_TOKENS_MAP THEN Whole(MAX_TOKENS_MAP[purpose]) ELSE Unresolved

\* A purpose in none of the tables would be a KeyError.
GetMaxTokens(config, purpose) ==
  IF purpose = "conversation" THEN config.conversation.max_tokens
  ELSE IF purpose \in DOMAIN MAX_TOKENS_MAP THEN Whole(MAX_TOKENS_MAP[purpose])
  ELSE Unresolved

GetTemperature(config, purpose) ==
  IF purpose \notin DOMAIN PURPOSE_TEMPERATURES THEN Unresolved
  ELSE IF PURPOSE_TEMPERATURES[purpose] # None THEN PURPOSE_TEMPERATURES[purpose]
  ELSE config.conversation.temperature

GetModel(config, purpose) == config.models[PURPOSE_MODEL_SLOTS[purpose]]
=============================================================================
