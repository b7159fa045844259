------------------------ MODULE SearchParallelProofs ------------------------
(***************************************************************************)
(* Proofs about SearchParallel and HaikuEngine, for any queries, any       *)
(* number of them and of worker threads, and any values in config.toml.    *)
(***************************************************************************)
EXTENDS HaikuEngine, FiniteSetTheorems, WellFoundedInduction, TLAPS

\* The queries of a response: at least one, at most as many as the settings allow.
LEMMA SubqueriesTyped ==
  ASSUME NEW items \in Items, NEW limit \in Nat \ {0}
  PROVE  /\ Subqueries(items, limit) \in Seq(Texts \cup {Topic})
         /\ Len(Subqueries(items, limit)) \in 1..limit
<1>1. PICK n \in Nat : items \in [1..n -> Texts]
  BY 0..MaxItems \subseteq Nat, Zenon DEF Items
<1>2. items \in Seq(Texts) /\ Len(items) = n
  BY <1>1
<1>3. CASE items = <<>>
  BY <1>3, SearchAssumption DEF Subqueries
<1>4. CASE items # <<>>
  <2> DEFINE k == IF n < limit THEN n ELSE limit
  <2>1. n # 0
    BY <1>2, <1>4
  <2>2. k \in 1..n /\ k <= limit
    BY <2>1
  <2>3. Subqueries(items, limit) = SubSeq(items, 1, k)
    BY <1>2, <1>4, Zenon DEF Subqueries
  <2> HIDE DEF k
  <2>4. SubSeq(items, 1, k) \in Seq(Texts) /\ Len(SubSeq(items, 1, k)) = k
    BY <1>2, <2>2
  <2> QED
    BY <2>2, <2>3, <2>4
<1> QED
  BY <1>3, <1>4

\* A task is done only when its search has ended, and none is before the loop runs.
LoopInv ==
  /\ pc = "idle" => delivered = {}
  /\ pc \in {"idle", "parallel", "gather"} => ~timedOut
  /\ \A i \in delivered : worker[i] = "ended"
  /\ ResultsFit

\* The calls, the tasks and the results keep their types, and every result belongs
\* to the search of its query, whatever the threads and the timeout do.
LEMMA SearchInv == Spec => [](TypeOK /\ LoopInv)
<1>1. Init => TypeOK /\ LoopInv
  <2> SUFFICES ASSUME Init PROVE TypeOK /\ LoopInv
    OBVIOUS
  <2>1. Calls = {}
    BY DEF Init, Calls
  <2>2. /\ queries \in Seq(Texts \cup {Topic})
        /\ results \in Seq(Found)
    BY SearchAssumption DEF Init
  <2>3. /\ worker \in [Calls -> {"queued", "running", "ended", "cancelled"}]
        /\ found \in [Calls -> Found]
    BY <2>1 DEF Init
  <2>4. timedOut \in BOOLEAN /\ delivered \subseteq Calls
    BY DEF Init
  <2> QED
    BY <2>2, <2>3, <2>4 DEF Init, TypeOK, LoopInv, ResultsFit
<1>2. TypeOK /\ LoopInv /\ [Next]_vars => (TypeOK /\ LoopInv)'
  <2> SUFFICES ASSUME TypeOK, LoopInv, [Next]_vars PROVE (TypeOK /\ LoopInv)'
    OBVIOUS
  <2> USE DEF TypeOK, LoopInv, ResultsFit, Calls, Found
  <2>1. ASSUME NEW limit \in Nat \ {0}, DecomposeQuery(limit) PROVE (TypeOK /\ LoopInv)'
    <3>1. CASE \E items \in Items : pc' = "parallel" /\ queries' = Subqueries(items, limit)
      <4>1. queries' \in Seq(Texts \cup {Topic})
        BY <3>1, SubqueriesTyped
      <4> QED
        BY <2>1, <3>1, <4>1 DEF DecomposeQuery
    <3>2. CASE pc' = "failed" /\ queries' = queries
      BY <2>1, <3>2 DEF DecomposeQuery
    <3> QED
      BY <2>1, <3>1, <3>2, Zenon DEF DecomposeQuery
  <2>2. CASE StartLoop
    BY <2>2 DEF StartLoop
  <2>3. CASE TakeCall
    BY <2>3 DEF TakeCall, WithState
  <2>4. ASSUME NEW i \in Calls, Search(i) PROVE (TypeOK /\ LoopInv)'
    BY <2>4 DEF Search
  <2>5. ASSUME NEW i \in Calls, Deliver(i) PROVE (TypeOK /\ LoopInv)'
    BY <2>5 DEF Deliver
  <2>6. CASE Gather
    <3>1. found \in Seq(Found)
      <4>1. Len(queries) \in Nat /\ DOMAIN queries = 1..Len(queries)
        OBVIOUS
      <4> QED
        BY <4>1
    <3> QED
      BY <2>6, <3>1 DEF Gather
  <2>7. CASE Expire
    BY <2>7 DEF Expire
  <2>8. CASE CloseLoop
    BY <2>8 DEF CloseLoop
  <2>9. CASE JoinExpires
    BY <2>9 DEF JoinExpires
  <2>10. CASE UNCHANGED vars
    BY <2>10 DEF vars
  <2> QED
    BY <2>1, <2>2, <2>3, <2>4, <2>5, <2>6, <2>7, <2>8, <2>9, <2>10 DEF Next, Loop
<1> QED
  BY <1>1, <1>2, PTL DEF Spec

\* Every query gets the result of its own search or, with a timeout, every query
\* gets nothing, in any order of the threads (agentic_search.py:371-392).
THEOREM ResultsBelong == Spec => []ResultsFit
BY SearchInv, PTL DEF LoopInv

-----------------------------------------------------------------------------
(* The configuration.                                                      *)

WellFormed(value) ==
  /\ value.num \in Int
  /\ value.type = "int" => value.text = "numeral"
  /\ value.type = "float" => value.text \in {"numeral", "nan", "inf"}

\* A default, and what its rule may hold.
Sound(value, rule) ==
  /\ WellFormed(value) /\ Respects(value, rule)
  /\ IsToml(Literal(value)) /\ ReadToml(Literal(value)) = value
  /\ rule.min \subseteq Int /\ rule.max \subseteq Int

\* Defaults of every type are sound.
LEMMA ConstructorsSound ==
  /\ Sound(Yes, Of("bool")) /\ Sound(No, Of("bool"))
  /\ \A t : Sound(Str(t), Of("str"))
  /\ \A t, texts : t \in texts => Sound(Str(t), OneOf(texts))
  /\ \A n, m \in Int : m <= 100 * n => Sound(Whole(n), AtLeast("int", m))
  /\ \A n, m \in Int : m <= n => Sound(Decimal(n), AtLeast("float", m))
  /\ \A n, m, k \in Int : m <= n /\ n <= k => Sound(Decimal(n), Within(m, k))
<1> USE DEF Sound, WellFormed, Respects, IsToml, ReadToml, Literal, Yes, No, Value, Rule
<1>1. Sound(Yes, Of("bool")) /\ Sound(No, Of("bool"))
  BY DEF Of
<1>2. ASSUME NEW t PROVE Sound(Str(t), Of("str"))
  BY DEF Str, Of
<1>3. ASSUME NEW t, NEW texts, t \in texts PROVE Sound(Str(t), OneOf(texts))
  BY <1>3 DEF Str, OneOf
<1>4. ASSUME NEW n \in Int, NEW m \in Int, m <= 100 * n PROVE Sound(Whole(n), AtLeast("int", m))
  BY <1>4 DEF Whole, AtLeast
<1>5. ASSUME NEW n \in Int, NEW m \in Int, m <= n PROVE Sound(Decimal(n), AtLeast("float", m))
  BY <1>5 DEF Decimal, AtLeast
<1>6. ASSUME NEW n \in Int, NEW m \in Int, NEW k \in Int, m <= n, n <= k
      PROVE Sound(Decimal(n), Within(m, k))
  BY <1>6 DEF Decimal, Within
<1> HIDE DEF Sound, WellFormed, Respects, IsToml, ReadToml, Literal, Yes, No, Value, Rule
<1> QED
  BY <1>1, <1>2, <1>3, <1>4, <1>5, <1>6

\* Every default keeps its own rule and survives being written and read.
LEMMA DefaultsSound ==
  \A s \in Sections : \A f \in DOMAIN Defaults[s] : Sound(Defaults[s][f], Rules[s][f])
<1>1. \A f \in DOMAIN GeneralConfig : Sound(GeneralConfig[f], ParseGeneral[f])
  BY ConstructorsSound DEF GeneralConfig, ParseGeneral
<1>2. \A f \in DOMAIN ModelsConfig : Sound(ModelsConfig[f], ParseModels[f])
  BY ConstructorsSound DEF ModelsConfig, ParseModels, Haiku
<1>3. \A f \in DOMAIN WizardConfig : Sound(WizardConfig[f], ParseWizard[f])
  BY ConstructorsSound DEF WizardConfig, ParseWizard
<1>4. \A f \in DOMAIN ConversationConfig : Sound(ConversationConfig[f], ParseConversation[f])
  BY ConstructorsSound DEF ConversationConfig, ParseConversation
<1>5. \A f \in DOMAIN GuiConfig : Sound(GuiConfig[f], ParseGui[f])
  BY ConstructorsSound DEF GuiConfig, ParseGui
<1>6. \A f \in DOMAIN MemoryConfig : Sound(MemoryConfig[f], ParseMemory[f])
  BY ConstructorsSound DEF MemoryConfig, ParseMemory
<1>7. \A f \in DOMAIN ApiConfig : Sound(ApiConfig[f], ParseApi[f])
  BY ConstructorsSound DEF ApiConfig, ParseApi
<1>8. \A f \in DOMAIN TrayConfig : Sound(TrayConfig[f], ParseTray[f])
  BY ConstructorsSound DEF TrayConfig, ParseTray
<1>9. \A f \in DOMAIN LoggingConfig : Sound(LoggingConfig[f], ParseLogging[f])
  BY ConstructorsSound DEF LoggingConfig, ParseLogging
<1>10. \A f \in DOMAIN DesireConfig : Sound(DesireConfig[f], ParseDesire[f])
  BY ConstructorsSound DEF DesireConfig, ParseDesire
<1>11. \A f \in DOMAIN AgenticSearchConfig : Sound(AgenticSearchConfig[f], ParseAgenticSearch[f])
  BY ConstructorsSound DEF AgenticSearchConfig, ParseAgenticSearch
<1> QED
  BY <1>1, <1>2, <1>3, <1>4, <1>5, <1>6, <1>7, <1>8, <1>9, <1>10, <1>11
  DEF Sections, Defaults, Rules

\* What the coercion makes of a value of the file.
Coerced(raw, s, f) ==
  CoerceEnum(CoerceField(raw, Rules[s][f], Defaults[s][f]), Rules[s][f], Defaults[s][f])
Wanted(raw, rule) == IF raw.type = "int" /\ rule.type = "float" THEN Decimal(raw.num) ELSE raw

LEMMA CoercedFits ==
  ASSUME NEW s \in Sections, NEW f \in DOMAIN Defaults[s], NEW raw, WellFormed(raw)
  PROVE  /\ WellFormed(Coerced(raw, s, f)) /\ Respects(Coerced(raw, s, f), Rules[s][f])
         /\ Coerced(raw, s, f) = IF Respects(Wanted(raw, Rules[s][f]), Rules[s][f])
                                 THEN Wanted(raw, Rules[s][f]) ELSE Defaults[s][f]
<1> DEFINE law == Rules[s][f]
           usual == Defaults[s][f]
           typed == Converted(raw, law.type)
<1>1. Sound(usual, law)
  BY DefaultsSound
<1>2. typed = Wanted(raw, law) /\ WellFormed(typed)
  BY DEF Converted, Wanted, WellFormed, Decimal, Value
<1>3. IsValidType(raw, law.type) <=> typed.type = law.type
  BY DEF IsValidType, Converted, Value
<1>4. Coerced(raw, s, f) = CoerceEnum(CoerceField(raw, law, usual), law, usual)
  BY DEF Coerced
<1>11. Rules[s][f] = law /\ Defaults[s][f] = usual
  OBVIOUS
<1> HIDE DEF law, usual, typed
<1>10. typed.num \in Int /\ law.min \subseteq Int /\ law.max \subseteq Int
  BY <1>1, <1>2 DEF Sound, WellFormed
<1>5. CASE Respects(typed, law)
  <2>1. /\ IsValidType(raw, law.type)
        /\ \A least \in law.min : ~IsBelow(typed, least)
        /\ \A most \in law.max : ~IsAbove(typed, most)
    BY <1>3, <1>5, <1>10 DEF Respects, IsBelow, IsAbove
  <2>2. CoerceField(raw, law, usual) = typed
    BY <2>1 DEF CoerceField, typed
  <2>3. CoerceEnum(typed, law, usual) = typed
    BY <1>5 DEF CoerceEnum, Respects
  <2> QED
    BY <1>2, <1>4, <1>5, <1>11, <2>2, <2>3
<1>6. CASE ~Respects(typed, law)
  <2>1. CASE CoerceField(raw, law, usual) = usual
    BY <1>1, <1>2, <1>4, <1>6, <1>11, <2>1 DEF CoerceEnum, Sound
  <2>2. CASE CoerceField(raw, law, usual) # usual
    <3>1. CoerceField(raw, law, usual) = typed /\ typed.type = law.type
      BY <1>3, <2>2 DEF CoerceField, typed
    <3>2. /\ \A least \in law.min : ~IsBelow(typed, least)
          /\ \A most \in law.max : ~IsAbove(typed, most)
      BY <2>2 DEF CoerceField, typed
    <3>3. ~ (law.valid # {} => typed.text \in law.valid)
      <4>1. \A least \in law.min : typed.text = "numeral" => typed.num >= least
        BY <1>10, <3>2 DEF IsBelow
      <4>2. \A most \in law.max : typed.text # "inf" /\ (typed.text = "numeral" => typed.num <= most)
        BY <1>10, <3>2 DEF IsAbove
      <4> QED
        BY <1>6, <3>1, <4>1, <4>2, Zenon DEF Respects
    <3>4. Coerced(raw, s, f) = usual
      BY <1>4, <3>1, <3>3 DEF CoerceEnum
    <3> QED
      BY <1>1, <1>2, <1>6, <1>11, <3>4 DEF Sound
  <2> QED
    BY <2>1, <2>2
<1> QED
  BY <1>5, <1>6

-----------------------------------------------------------------------------
(* The start of the process.                                               *)

Fields(s) == DOMAIN Defaults[s]

\* The values of a file are values; a sound file holds what the user wished; what was
\* loaded is the coerced file.
LoadInv ==
  /\ file.kind \in {"absent", "toml", "broken"}
  /\ file.kind = "absent" => file.tables = <<>>
  /\ \A s \in Sections : \A f \in Fields(s) : WellFormed(Raw(file.tables, s, f))
  /\ ~spoilt /\ phase # "running" =>
       /\ file.kind # "broken"
       /\ \A s \in Sections : \A f \in Fields(s) : Raw(file.tables, s, f) = Raw(wishes, s, f)
  /\ phase = "refused" => spoilt
  /\ phase = "loaded" =>
       \A s \in Sections : \A f \in Fields(s) : config[s][f] = Coerced(Raw(file.tables, s, f), s, f)
  /\ phase = "running" => settings.max_subqueries \in Nat \ {0}
  /\ stage # "none" => phase = "running"

LEMMA RawOfNothing ==
  \A s \in Sections : \A f \in Fields(s) :
    Raw(<<>>, s, f) = Defaults[s][f] /\ WellFormed(Defaults[s][f])
BY DefaultsSound DEF Raw, Sound, Fields

\* The generated file holds the defaults.
LEMMA GeneratedReads ==
  /\ GeneratedFile.kind = "toml"
  /\ \A s \in Sections : \A f \in Fields(s) : Raw(GeneratedFile.tables, s, f) = Defaults[s][f]
<1> DEFINE tables == [s \in Sections |-> [f \in DOMAIN Defaults[s] |-> ReadToml(Literal(Defaults[s][f]))]]
<1>1. \A s \in Sections : \A f \in DOMAIN Defaults[s] : IsToml(Literal(Defaults[s][f]))
  BY DefaultsSound DEF Sound
<1>2. GeneratedFile = File("toml", tables)
  BY <1>1, Zenon DEF GeneratedFile
<1>3. GeneratedFile.kind = "toml" /\ GeneratedFile.tables = tables
  BY <1>2 DEF File
<1>4. \A s \in Sections : \A f \in Fields(s) : tables[s][f] = Defaults[s][f]
  BY DefaultsSound DEF Sound, Fields
<1> QED
  BY <1>3, <1>4 DEF Raw, Fields

\* What a cut leaves holds values.
LEMMA CutWellFormed ==
  ASSUME NEW cut \in CutFiles
  PROVE  /\ cut.kind \in {"toml", "broken"}
         /\ \A s \in Sections : \A f \in Fields(s) : WellFormed(Raw(cut.tables, s, f))
<1>1. \/ cut = Broken
      \/ \E k \in 0..Len(SectionOrder) : cut = File("toml", CutBetween(k))
      \/ \E k \in 1..Len(SectionOrder) :
           \E line \in WithDigits(SectionOrder[k]) : cut = File("toml", CutWithin(k, line))
  BY Zenon DEF CutFiles
<1>2. CASE cut = Broken
  BY <1>2, RawOfNothing DEF Broken, File
<1>3. ASSUME NEW k, cut = File("toml", CutBetween(k))
      PROVE  /\ cut.kind = "toml"
             /\ \A s \in Sections : \A f \in Fields(s) : WellFormed(Raw(cut.tables, s, f))
  <2>1. cut.kind = "toml" /\ cut.tables = CutBetween(k)
    BY <1>3 DEF File
  <2> QED
    BY <2>1, RawOfNothing DEF Raw, Fields, CutBetween
<1>4. ASSUME NEW k, NEW line, cut = File("toml", CutWithin(k, line))
      PROVE  /\ cut.kind = "toml"
             /\ \A s \in Sections : \A f \in Fields(s) : WellFormed(Raw(cut.tables, s, f))
  <2>1. cut.kind = "toml" /\ cut.tables = CutWithin(k, line)
    BY <1>4 DEF File
  <2>2. ASSUME NEW v, v.num \in Int PROVE WellFormed(Shorter(v))
    BY <2>2 DEF WellFormed, Shorter, Whole, Value
  <2>3. ASSUME NEW s \in Sections, NEW f \in Fields(s)
        PROVE  WellFormed(Raw(CutWithin(k, line), s, f))
    <3>1. Raw(CutWithin(k, line), s, f) \in {Shorter(Defaults[s][f]), Defaults[s][f]}
      BY DEF Raw, Fields, CutWithin
    <3> QED
      BY <2>2, <3>1, RawOfNothing DEF WellFormed
  <2> QED
    BY <2>1, <2>3
<1> QED
  BY <1>1, <1>2, <1>3, <1>4, Zenon

\* An edit changes the fields it names.
LEMMA RawOfEdited ==
  ASSUME NEW tables, NEW t, NEW edits, NEW s \in Sections, NEW f \in Fields(s)
  PROVE  Raw(Edited(tables, t, edits), s, f) =
           IF s = t /\ f \in DOMAIN edits THEN edits[f] ELSE Raw(tables, s, f)
BY DEF Raw, Edited

LEMMA LoadInvInitially == EngineInit => LoadInv
<1> SUFFICES ASSUME EngineInit PROVE LoadInv
  OBVIOUS
<1> QED
  BY RawOfNothing DEF EngineInit, LoadInv, Absent, File

LEMMA LoadInvStep == LoadInv /\ [EngineNext]_engineVars => LoadInv'
<1> SUFFICES ASSUME LoadInv, [EngineNext]_engineVars PROVE LoadInv'
  OBVIOUS
<1> USE DEF LoadInv
<1>1. CASE Edit
  <2>1. CASE file' = Broken /\ spoilt' = TRUE
    BY <1>1, <2>1, RawOfNothing DEF Edit, Broken, File
  <2>2. ASSUME NEW s \in Sections, NEW edits \in EditsOf(s),
               wishes' = [t \in {s} |-> edits],
               file' = File("toml", Edited(file.tables, s, edits)),
               spoilt' = spoilt
        PROVE  LoadInv'
    <3>1. \A f \in DOMAIN edits : WellFormed(edits[f])
      <4>1. PICK F : edits \in [F -> Raws]
        BY Zenon DEF EditsOf
      <4> QED
        BY <4>1, RawsAssumption DEF WellFormed
    <3>2. file'.kind = "toml" /\ file'.tables = Edited(file.tables, s, edits)
      BY <2>2 DEF File
    <3>3. \A t \in Sections : \A f \in Fields(t) : WellFormed(Raw(file'.tables, t, f))
      BY <3>1, <3>2, RawOfEdited
    <3>4. phase = "off" /\ ~spoilt /\ wishes = <<>> /\ phase' = phase /\ stage' = stage
      BY <1>1 DEF Edit
    <3>5. ASSUME NEW t \in Sections, NEW f \in Fields(t)
          PROVE  Raw(file'.tables, t, f) = Raw(wishes', t, f)
      <4>1. Raw(file.tables, t, f) = Defaults[t][f]
        BY <3>4, RawOfNothing
      <4>2. Raw(wishes', t, f) = IF t = s /\ f \in DOMAIN edits THEN edits[f] ELSE Defaults[t][f]
        BY <2>2 DEF Raw
      <4> QED
        BY <3>2, <4>1, <4>2, RawOfEdited
    <3> QED
      BY <3>2, <3>3, <3>4, <3>5
  <2> QED
    BY <1>1, <2>1, <2>2, Zenon DEF Edit
<1>2. CASE GenerateDefault
  <2>1. /\ phase' = "loaded" /\ config' = Defaults /\ file' = GeneratedFile /\ stage' = stage
        /\ wishes' = wishes /\ spoilt' = spoilt /\ file.tables = <<>>
        /\ phase = "off"
    BY <1>2 DEF GenerateDefault
  <2>2. ASSUME NEW s \in Sections, NEW f \in Fields(s)
        PROVE  config'[s][f] = Coerced(Raw(file'.tables, s, f), s, f)
    <3>1. /\ Raw(file'.tables, s, f) = Defaults[s][f]
          /\ WellFormed(Defaults[s][f]) /\ Respects(Defaults[s][f], Rules[s][f])
      BY <2>1, GeneratedReads, DefaultsSound DEF Sound, Fields
    <3>2. Coerced(Defaults[s][f], s, f) = Defaults[s][f]
      <4>1. Wanted(Defaults[s][f], Rules[s][f]) = Defaults[s][f]
        BY <3>1 DEF Wanted, Respects
      <4> QED
        BY <3>1, <4>1, CoercedFits DEF Fields
    <3> QED
      BY <2>1, <3>1, <3>2
  <2>3. \A s \in Sections : \A f \in Fields(s) : Raw(file.tables, s, f) = Defaults[s][f]
    BY <2>1, RawOfNothing
  <2> QED
    BY <2>1, <2>2, <2>3, GeneratedReads, RawOfNothing
<1>3. CASE GenerationCut
  BY <1>3, CutWellFormed DEF GenerationCut
<1>4. CASE LoadConfig
  <2>1. ASSUME NEW s \in Sections, NEW f \in Fields(s)
        PROVE  BuildAppConfig(file.tables)[s][f] = Coerced(Raw(file.tables, s, f), s, f)
    BY DEF BuildAppConfig, Coerced, Fields
  <2>2. /\ phase' = "loaded" /\ config' = BuildAppConfig(file.tables)
        /\ phase = "off" /\ UNCHANGED <<file, wishes, spoilt, stage, settings>>
    BY <1>4 DEF LoadConfig
  <2> QED
    BY <2>1, <2>2
<1>5. CASE LoadFails
  BY <1>5 DEF LoadFails
<1>6. CASE Quit
  BY <1>6 DEF Quit
<1>7. CASE Construct
  <2> DEFINE n == config.agentic_search.max_subqueries
  <2>1. "agentic_search" \in Sections /\ "max_subqueries" \in Fields("agentic_search")
    BY DEF Sections, Defaults, Fields, AgenticSearchConfig
  <2>2. n = Coerced(Raw(file.tables, "agentic_search", "max_subqueries"), "agentic_search", "max_subqueries")
    BY <1>7, <2>1 DEF Construct
  <2>3. WellFormed(n) /\ Respects(n, Rules["agentic_search"]["max_subqueries"])
    BY <2>1, <2>2, CoercedFits DEF Fields
  <2>4. Rules["agentic_search"]["max_subqueries"] = AtLeast("int", 100)
    BY DEF Rules, ParseAgenticSearch
  <2>5. n.num \in Int /\ n.num >= 100
    BY <2>3, <2>4 DEF WellFormed, Respects, AtLeast, Rule
  <2>6. settings'.max_subqueries = n.num \div 100
    BY <1>7 DEF Construct
  <2>7. settings'.max_subqueries \in Nat \ {0}
    BY <2>5, <2>6
  <2>8. phase' = "running" /\ file' = Absent
    BY <1>7 DEF Construct
  <2> QED
    BY <2>7, <2>8, RawOfNothing DEF Absent, File
<1>8. CASE UNCHANGED loadVars /\ (stage' # "none" => stage # "none")
  BY <1>8 DEF loadVars
<1>9. CASE Stages
  <2>1. UNCHANGED loadVars
    BY <1>9 DEF Stages, AskModel, ModelWorks, DecomposeEnds, SearchEnds, SummaryEnds, NoiseEnds
  <2>2. stage' # "none" => stage # "none"
    BY <1>9 DEF Stages, AskModel, ModelWorks, DecomposeEnds, SearchEnds, SummaryEnds, NoiseEnds, PurposeOf
  <2> QED
    BY <1>8, <2>1, <2>2
<1> QED
  BY <1>1, <1>2, <1>3, <1>4, <1>5, <1>6, <1>7, <1>8, <1>9 DEF EngineNext, Searches, engineVars

LEMMA Loaded == EngineSpec => []LoadInv
BY LoadInvInitially, LoadInvStep, PTL DEF EngineSpec

\* Unless the file is spoilt, the program starts, and starts with the valid wishes of
\* the user and the defaults for the rest, whatever he has written (config.py:377-445,
\* 867-1041).
THEOREM ConfigurationFits == EngineSpec => []ConfigFits
<1>1. LoadInv => ConfigFits
  <2> SUFFICES ASSUME LoadInv, ~spoilt, phase = "loaded",
                      NEW s \in Sections, NEW f \in Fields(s)
               PROVE  /\ Respects(config[s][f], Rules[s][f])
                      /\ config[s][f] = IF Respects(Wish(s, f), Rules[s][f])
                                        THEN Wish(s, f) ELSE Defaults[s][f]
    BY DEF ConfigFits, LoadInv, Fields
  <2>1. /\ config[s][f] = Coerced(Raw(file.tables, s, f), s, f)
        /\ WellFormed(Raw(file.tables, s, f))
        /\ Raw(file.tables, s, f) = Raw(wishes, s, f)
    BY DEF LoadInv
  <2>2. Wish(s, f) = Wanted(Raw(wishes, s, f), Rules[s][f])
    BY DEF Wish, Wanted
  <2> QED
    BY <2>1, <2>2, CoercedFits DEF Fields
<1> QED
  BY <1>1, Loaded, PTL

\* Whatever the file says, every purpose resolves to a request that the API accepts
\* (config.py:1044-1104).
THEOREM RequestsResolve == EngineSpec => []RequestsInRange
<1>1. LoadInv => RequestsInRange
  <2> SUFFICES ASSUME LoadInv, phase = "loaded" PROVE RequestsInRange
    BY DEF RequestsInRange
  <2>1. ASSUME NEW s \in Sections, NEW f \in Fields(s)
        PROVE  WellFormed(config[s][f]) /\ Respects(config[s][f], Rules[s][f])
    BY CoercedFits DEF LoadInv, Fields
  <2>2. /\ "conversation" \in Sections /\ {"max_tokens", "temperature"} = Fields("conversation")
        /\ "models" \in Sections
        /\ {"conversation", "memory_worker", "utility", "wizard"} = Fields("models")
    BY DEF Sections, Defaults, Fields, ConversationConfig, ModelsConfig
  <2>3. /\ Rules["conversation"]["max_tokens"] = AtLeast("int", 100)
        /\ Rules["conversation"]["temperature"] = Within(0, 200)
        /\ \A f \in Fields("models") : Rules["models"][f] = Of("str")
    BY <2>2 DEF Rules, ParseConversation, ParseModels
  <2>4. config.conversation.max_tokens.type = "int" /\ config.conversation.max_tokens.num >= 100
    BY <2>1, <2>2, <2>3 DEF WellFormed, Respects, AtLeast, Rule
  <2> DEFINE warmth == config.conversation.temperature
  <2>5. /\ warmth.type = "float"
        /\ warmth.text = "nan" \/ (warmth.text = "numeral" /\ warmth.num \in 0..200)
    <3>1. WellFormed(warmth) /\ Respects(warmth, Within(0, 200))
      BY <2>1, <2>2, <2>3
    <3> QED
      BY <3>1 DEF WellFormed, Respects, Within, Rule
  <2>6. \A f \in Fields("models") : config.models[f].type = "str"
    BY <2>1, <2>2, <2>3 DEF Respects, Of, Rule
  <2>7. ASSUME NEW p \in VALID_PURPOSES
        PROVE  GetMaxTokens(config, p).type = "int" /\ GetMaxTokens(config, p).num >= 100
    BY <2>4, <2>7 DEF GetMaxTokens, VALID_PURPOSES, MAX_TOKENS_MAP, Whole, Value
  <2>8. ASSUME NEW p \in VALID_PURPOSES
        PROVE  \/ GetTemperature(config, p) = warmth
               \/ \E h \in 0..200 : GetTemperature(config, p) = Decimal(h)
    <3>1. PURPOSE_TEMPERATURES[p] = None \/ \E h \in 0..200 : PURPOSE_TEMPERATURES[p] = Decimal(h)
      BY DEF VALID_PURPOSES, PURPOSE_TEMPERATURES
    <3>2. p \in DOMAIN PURPOSE_TEMPERATURES
      BY DEF VALID_PURPOSES, PURPOSE_TEMPERATURES
    <3> QED
      BY <3>1, <3>2 DEF GetTemperature
  <2>9. ASSUME NEW p \in VALID_PURPOSES
        PROVE  /\ GetTemperature(config, p).type = "float"
               /\ \/ GetTemperature(config, p).text = "nan"
                  \/ /\ GetTemperature(config, p).text = "numeral"
                     /\ GetTemperature(config, p).num \in 0..200
    BY <2>5, <2>8 DEF Decimal, Value
  <2>10. ASSUME NEW p \in VALID_PURPOSES PROVE GetModel(config, p).type = "str"
    BY <2>2, <2>6 DEF GetModel, PURPOSE_MODEL_SLOTS
  <2> QED
    BY <2>7, <2>9, <2>10 DEF RequestsInRange
<1> QED
  BY <1>1, Loaded, PTL

\* The engine searches as SearchParallel says, with the limit of the settings.
LEMMA EngineSearches == EngineSpec => Spec
<1>1. EngineInit => Init
  BY DEF EngineInit
<1>2. LoadInv /\ [EngineNext]_engineVars => [Next]_vars
  <2> SUFFICES ASSUME LoadInv, [EngineNext]_engineVars PROVE [Next]_vars
    OBVIOUS
  <2>1. CASE DecomposeEnds
    <3>1. settings.max_subqueries \in Nat \ {0} /\ DecomposeQuery(settings.max_subqueries)
      BY <2>1 DEF DecomposeEnds, LoadInv
    <3> QED
      BY <3>1 DEF Next
  <2>2. CASE \/ Searches(Loop) \/ Searches(TakeCall) \/ Searches(\E i \in Calls : Search(i))
             \/ Searches(Expire) \/ Searches(JoinExpires)
    BY <2>2 DEF Searches, Next
  <2>3. CASE UNCHANGED vars
    BY <2>3
  <2>4. CASE \/ Edit \/ GenerateDefault \/ GenerationCut \/ LoadConfig \/ LoadFails \/ Quit
             \/ Construct \/ AskModel \/ ModelWorks \/ SearchEnds \/ SummaryEnds \/ NoiseEnds
    BY <2>3, <2>4 DEF Edit, GenerateDefault, GenerationCut, LoadConfig, LoadFails, Quit,
       Construct, AskModel, ModelWorks, SearchEnds, SummaryEnds, NoiseEnds, searchVars
  <2> QED
    BY <2>1, <2>2, <2>3, <2>4 DEF EngineNext, Stages, engineVars, searchVars
<1> QED
  BY <1>1, <1>2, Loaded, PTL DEF EngineSpec, Spec

\* In the engine, too, every query gets the result of its own search or, with a
\* timeout, every query gets nothing (agentic_search.py:371-414).
THEOREM EngineResultsBelong == EngineSpec => []ResultsFit
BY ResultsBelong, EngineSearches, PTL

\* Every variable of the process, the pipeline and the request keeps its type; the
\* client always has a number of retries and the engine a limit that is not zero
\* (llm_client.py:157-196, agentic_search.py:109-113).
THEOREM EngineTypes == EngineSpec => []EngineTypeOK
<1> DEFINE PhaseOK == phase \in {"off", "loaded", "refused", "running"}
           StageOK == stage \in {"none", "decompose", "search", "summarize", "noise", "done", "failed"}
           SettingsOK == settings.max_retries \in Nat /\ settings.max_subqueries \in Nat \ {0}
           Shape == DOMAIN call = {"state", "purpose", "outcomes", "attempt", "slept"}
           OK == PhaseOK /\ StageOK /\ SettingsOK /\ CallTypeOK /\ Shape
<1>1. EngineInit => OK
  BY DEF EngineInit, NoSettings, CallTypeOK, Idle
<1>2. LoadInv /\ OK /\ [EngineNext]_engineVars => OK'
  <2> SUFFICES ASSUME LoadInv, OK, [EngineNext]_engineVars PROVE OK'
    OBVIOUS
  <2>1. CASE Construct
    <3>1. /\ "agentic_search" \in Sections /\ "max_subqueries" \in Fields("agentic_search")
          /\ "api" \in Sections /\ "max_retries" \in Fields("api")
      BY DEF Sections, Defaults, Fields, AgenticSearchConfig, ApiConfig
    <3>2. \A s \in Sections : \A f \in Fields(s) :
            WellFormed(config[s][f]) /\ Respects(config[s][f], Rules[s][f])
      BY <2>1, CoercedFits DEF Construct, LoadInv, Fields
    <3>3. /\ Rules["agentic_search"]["max_subqueries"] = AtLeast("int", 100)
          /\ Rules["api"]["max_retries"] = AtLeast("int", 0)
      BY DEF Rules, ParseAgenticSearch, ParseApi
    <3>4. /\ config.agentic_search.max_subqueries.num \in Int
          /\ config.agentic_search.max_subqueries.num >= 100
      BY <3>1, <3>2, <3>3 DEF WellFormed, Respects, AtLeast, Rule
    <3>5. config.api.max_retries.num \in Int /\ config.api.max_retries.num >= 0
      BY <3>1, <3>2, <3>3 DEF WellFormed, Respects, AtLeast, Rule
    <3>6. SettingsOK'
      BY <2>1, <3>4, <3>5 DEF Construct
    <3> QED
      BY <2>1, <3>6 DEF Construct, CallTypeOK
  <2>2. CASE Edit \/ GenerateDefault \/ GenerationCut \/ LoadConfig \/ LoadFails \/ Quit
    BY <2>2 DEF Edit, GenerateDefault, GenerationCut, LoadConfig, LoadFails, Quit, CallTypeOK
  <2>3. CASE AskModel
    BY <2>3 DEF AskModel, Ask, Idle, PurposeOf, loadVars, CallTypeOK, VALID_PURPOSES,
       Unfinished, Raised
  <2>4. CASE ModelWorks
    <3>1. UNCHANGED <<phase, stage, settings>>
      BY <2>4 DEF ModelWorks, loadVars
    <3>2. ASSUME NEW outcome \in Outcomes,
                 NEW state \in {"idle", "answered"} \cup Unfinished \cup Raised,
                 Attempted(outcome, state)
          PROVE  CallTypeOK' /\ Shape'
      BY <3>2 DEF Attempted, CallTypeOK
    <3>3. CASE Answered \/ Refused \/ Exception \/ Failed
      BY <3>1, <3>2, <3>3 DEF Answered, Refused, Exception, Failed, Outcomes, Unfinished, Raised
    <3>4. CASE Sleep
      <4>1. \/ \E pause : call' = [call EXCEPT !.state = "trying", !.attempt = @ + 1, !.slept = pause]
            \/ call' = [call EXCEPT !.state = "raised"]
        BY <3>4, Zenon DEF Sleep
      <4> QED
        <5>1. CASE call' = [call EXCEPT !.state = "raised"]
          BY <3>1, <5>1 DEF CallTypeOK, Unfinished, Raised
        <5>2. ASSUME NEW pause,
                     call' = [call EXCEPT !.state = "trying", !.attempt = @ + 1, !.slept = pause]
              PROVE  OK'
          <6>1. /\ call'.state = "trying" /\ call'.attempt = call.attempt + 1
                /\ call'.purpose = call.purpose /\ call'.outcomes = call.outcomes
                /\ Shape'
            BY <5>2
          <6> QED
            BY <3>1, <6>1 DEF CallTypeOK, Unfinished, Raised
        <5> QED
          BY <4>1, <5>1, <5>2
    <3> QED
      BY <2>4, <3>1, <3>3, <3>4 DEF ModelWorks, LlmStep
  <2>5. CASE DecomposeEnds \/ SummaryEnds \/ NoiseEnds
    <3>1. StageOK' /\ call' = Idle /\ UNCHANGED loadVars
      BY <2>5 DEF DecomposeEnds, SummaryEnds, NoiseEnds, Taken
    <3> QED
      BY <3>1 DEF loadVars, Idle, CallTypeOK
  <2>6. CASE SearchEnds \/ UNCHANGED <<loadVars, call, stage>>
    BY <2>6 DEF SearchEnds, loadVars, CallTypeOK
  <2> QED
    BY <2>1, <2>2, <2>3, <2>4, <2>5, <2>6 DEF EngineNext, Stages, Searches, engineVars
<1>3. EngineSpec => []OK
  BY <1>1, <1>2, Loaded, PTL DEF EngineSpec
<1>4. TypeOK /\ OK => EngineTypeOK
  BY DEF EngineTypeOK
<1> QED
  BY <1>3, <1>4, EngineSearches, SearchInv, PTL

-----------------------------------------------------------------------------
(* The retries of a request.                                               *)

\* Induction over the natural numbers, for a set of them.
LEMMA SetInduction ==
  ASSUME NEW S \in SUBSET Nat, 0 \in S, \A n \in S : n + 1 \in S
  PROVE  S = Nat
<1> SUFFICES ASSUME Nat \ S # {} PROVE FALSE
  OBVIOUS
<1>1. PICK k \in Nat \ S : \A j \in Nat \ S : ~(<<j, k>> \in OpToRel(<, Nat))
  BY NatLessThanWellFounded, WFMin
<1>2. OpToRel(<, Nat) = {p \in Nat \X Nat : p[1] < p[2]}
  BY DEF OpToRel
<1>3. ASSUME NEW j \in Nat \ S, j < k PROVE FALSE
  <2>1. <<j, k>> \in {p \in Nat \X Nat : p[1] < p[2]}
    BY <1>3
  <2> QED
    BY <1>1, <1>2, <2>1, Zenon
<1>4. k # 0 /\ k - 1 \in Nat /\ (k - 1) + 1 = k /\ k - 1 < k
  OBVIOUS
<1>5. k - 1 \in S
  BY <1>3, <1>4
<1> QED
  BY <1>4, <1>5

\* A function is defined by its first value and by a step from each to the next.
Recurs(f, S, base, next) ==
  /\ f \in [Nat -> S] /\ f[0] = base
  /\ \A n \in Nat : f[n + 1] = next[n][f[n]]

\* Any first value and steps define one.
LEMMA Recursion ==
  ASSUME NEW S, NEW base \in S, NEW next \in [Nat -> [S -> S]]
  PROVE  \E f : Recurs(f, S, base, next)
<1> DEFINE Approx(n) == {g \in [0..n -> S] : /\ g[0] = base
                                            /\ \A i \in 0..(n - 1) : g[i + 1] = next[i][g[i]]}
           Exists == {n \in Nat : Approx(n) # {}}
           At(n) == (CHOOSE g \in Approx(n) : TRUE)[n]
           f == [n \in Nat |-> At(n)]
<1>1. Exists = Nat
  <2>1. 0 \in Exists
    <3>1. [i \in 0..0 |-> base] \in Approx(0)
      OBVIOUS
    <3> QED
      BY <3>1
  <2>2. ASSUME NEW n \in Nat, NEW g \in Approx(n) PROVE Approx(n + 1) # {}
    <3> DEFINE h == [i \in 0..(n + 1) |-> IF i = n + 1 THEN next[n][g[n]] ELSE g[i]]
    <3>1. g[n] \in S /\ g[0] = base /\ \A i \in 0..n : g[i] \in S
      OBVIOUS
    <3>2. next[n][g[n]] \in S
      BY <3>1
    <3>3. h \in [0..(n + 1) -> S] /\ h[0] = base
      BY <3>1, <3>2
    <3>4. ASSUME NEW i \in 0..n PROVE h[i + 1] = next[i][h[i]]
      <4>0. i \in 0..(n + 1) /\ i + 1 \in 0..(n + 1) /\ i # n + 1
        OBVIOUS
      <4>1. CASE i = n
        <5>1. h[n + 1] = next[n][g[n]] /\ h[n] = g[n]
          BY <4>0, <4>1
        <5> QED
          BY <4>1, <5>1, Zenon
      <4>2. CASE i # n
        <5>1. i \in 0..(n - 1) /\ h[i + 1] = g[i + 1] /\ h[i] = g[i]
          BY <4>2
        <5> QED
          BY <5>1
      <4> QED
        BY <4>1, <4>2
    <3>5. (n + 1) - 1 = n
      OBVIOUS
    <3> HIDE DEF h
    <3>6. h \in Approx(n + 1)
      BY <3>3, <3>4, <3>5, Zenon
    <3> QED
      BY <3>6
  <2> HIDE DEF Approx
  <2>3. \A n \in Exists : n + 1 \in Exists
    BY <2>2
  <2>4. Exists \subseteq Nat
    OBVIOUS
  <2> HIDE DEF Exists
  <2> QED
    BY <2>1, <2>3, <2>4, SetInduction
<1>2. ASSUME NEW n \in Nat, NEW g \in Approx(n), NEW m \in Nat, NEW h \in Approx(m)
      PROVE  \A i \in Nat : i <= n /\ i <= m => g[i] = h[i]
  <2> DEFINE Same == {i \in Nat : i <= n /\ i <= m => g[i] = h[i]}
  <2>1. 0 \in Same
    OBVIOUS
  <2>2. ASSUME NEW i \in Same PROVE i + 1 \in Same
    <3> SUFFICES ASSUME i + 1 <= n, i + 1 <= m PROVE g[i + 1] = h[i + 1]
      OBVIOUS
    <3>1. g[i] = h[i] /\ i \in 0..(n - 1) /\ i \in 0..(m - 1)
      OBVIOUS
    <3> QED
      BY <3>1
  <2>3. Same = Nat
    <3> HIDE DEF Same
    <3>1. Same \subseteq Nat
      BY DEF Same
    <3> QED
      BY <2>1, <2>2, <3>1, SetInduction
  <2> QED
    BY <2>3
<1>3. ASSUME NEW n \in Nat PROVE \E g \in Approx(n) : At(n) = g[n]
  <2>1. n \in Exists
    BY <1>1
  <2>2. Approx(n) # {}
    BY <2>1
  <2> HIDE DEF Approx
  <2> QED
    BY <2>2
<1>4. f \in [Nat -> S] /\ f[0] = base
  <2>1. ASSUME NEW n \in Nat PROVE At(n) \in S /\ (n = 0 => At(n) = base)
    <3>1. PICK g \in Approx(n) : At(n) = g[n]
      BY <1>3
    <3>2. g[n] \in S /\ g[0] = base
      OBVIOUS
    <3> QED
      BY <3>1, <3>2
  <2> HIDE DEF At
  <2> QED
    BY <2>1
<1>5. ASSUME NEW n \in Nat PROVE f[n + 1] = next[n][f[n]]
  <2>5. n + 1 \in Nat /\ n <= n /\ n <= n + 1
    OBVIOUS
  <2>1. PICK g \in Approx(n) : At(n) = g[n]
    BY <1>3
  <2>2. PICK h \in Approx(n + 1) : At(n + 1) = h[n + 1]
    BY <1>3, <2>5, Zenon
  <2>3. g[n] = h[n]
    <3> HIDE DEF Approx
    <3> QED
      BY <1>2, <2>5, Zenon
  <2>4. h[n + 1] = next[n][h[n]]
    OBVIOUS
  <2> HIDE DEF At
  <2>6. f[n] = At(n) /\ f[n + 1] = At(n + 1)
    BY <2>5, Zenon
  <2> QED
    BY <2>1, <2>2, <2>3, <2>4, <2>6, Zenon
<1> HIDE DEF f
<1>6. Recurs(f, S, base, next)
  BY <1>4, <1>5 DEF Recurs
<1> QED
  BY <1>6


\* Each power is twice the one before.
LEMMA PowersOfTwo ==
  /\ PowerOfTwo[0] = 1
  /\ \A n \in Nat : PowerOfTwo[n] \in Nat /\ PowerOfTwo[n + 1] = 2 * PowerOfTwo[n]
<1> DEFINE Is(f) == f = [n \in Nat |-> IF n = 0 THEN 1 ELSE 2 * f[n - 1]]
           next == [n \in Nat |-> [k \in Nat |-> 2 * k]]
<1>1. \E f : Is(f)
  <2>1. next \in [Nat -> [Nat -> Nat]] /\ 1 \in Nat
    OBVIOUS
  <2>2. \A n, k \in Nat : next[n][k] = 2 * k
    OBVIOUS
  <2> HIDE DEF next
  <2>3. PICK f : Recurs(f, Nat, 1, next)
    BY <2>1, Recursion, Zenon
  <2>4. f \in [Nat -> Nat] /\ f[0] = 1 /\ \A n \in Nat : f[n + 1] = 2 * f[n]
    BY <2>2, <2>3 DEF Recurs
  <2>5. ASSUME NEW n \in Nat PROVE f[n] = IF n = 0 THEN 1 ELSE 2 * f[n - 1]
    <3>1. n # 0 => n - 1 \in Nat /\ (n - 1) + 1 = n
      OBVIOUS
    <3> QED
      BY <2>4, <3>1
  <2>6. Is(f)
    BY <2>4, <2>5
  <2> QED
    BY <2>6
<1>2. PowerOfTwo = CHOOSE f : Is(f)
  BY DEF PowerOfTwo
<1> HIDE DEF Is
<1>3. Is(PowerOfTwo)
  BY <1>1, <1>2, Zenon
<1>4. \A n \in Nat : PowerOfTwo[n] = IF n = 0 THEN 1 ELSE 2 * PowerOfTwo[n - 1]
  BY <1>3 DEF Is
<1>5. PowerOfTwo[0] = 1 /\ \A n \in Nat : PowerOfTwo[n + 1] = 2 * PowerOfTwo[n]
  <2>1. \A n \in Nat : n + 1 \in Nat /\ n + 1 # 0 /\ (n + 1) - 1 = n
    OBVIOUS
  <2> QED
    BY <1>4, <2>1
<1> DEFINE Numbers == {n \in Nat : PowerOfTwo[n] \in Nat}
<1>6. 0 \in Numbers /\ \A n \in Numbers : n + 1 \in Numbers
  BY <1>5
<1>7. Numbers = Nat
  <2>1. Numbers \subseteq Nat
    OBVIOUS
  <2> HIDE DEF Numbers
  <2> QED
    BY <1>6, <2>1, SetInduction
<1> QED
  BY <1>5, <1>7

\* The pauses before one more add up with it.
LEMMA PauseAdded ==
  ASSUME NEW base \in Int, NEW n \in Nat
  PROVE  base * (PowerOfTwo[n] - 1) + base * PowerOfTwo[n] = base * (PowerOfTwo[n + 1] - 1)
<1>1. ASSUME NEW p \in Int PROVE base * (p - 1) + base * p = base * (2 * p - 1)
  OBVIOUS
<1> QED
  BY <1>1, PowersOfTwo

\* What was tried, and how long was waited for.
RetryInv ==
  /\ call.attempt \in 0..settings.max_retries
  /\ \A i \in 1..call.attempt : call.outcomes[i] = "failure"
  /\ call.slept = settings.retry_backoff_base.num * (PowerOfTwo[call.attempt] - 1)
  /\ call.state \in {"idle", "unknown", "trying"} => Len(call.outcomes) = call.attempt
  /\ call.state \in {"sleeping", "answered", "authentication", "exhausted", "raised"} =>
       Len(call.outcomes) = call.attempt + 1
  /\ call.state = "sleeping" =>
       call.attempt < settings.max_retries /\ call.outcomes[call.attempt + 1] = "failure"
  /\ call.state = "exhausted" => call.attempt = settings.max_retries
  /\ call.state = "answered" => call.outcomes[call.attempt + 1] = "answer"

\* The types that the proof needs; a request is made in a stage.
RetryTypes ==
  /\ CallTypeOK
  /\ DOMAIN call = {"state", "purpose", "outcomes", "attempt", "slept"}
  /\ settings.max_retries \in Nat /\ settings.retry_backoff_base.num \in Int
  /\ stage = "none" => call = Idle

\* Nothing was tried yet.
LEMMA RetryIdle ==
  ASSUME settings.max_retries \in Nat, settings.retry_backoff_base.num \in Int, call = Idle
  PROVE  RetryInv
<1>1. \A b \in Int : b * (1 - 1) = 0
  OBVIOUS
<1> QED
  BY <1>1, PowersOfTwo DEF Idle, RetryInv

\* One more attempt.
LEMMA RetryAttempt ==
  ASSUME RetryTypes, RetryInv, call.state = "trying", UNCHANGED settings,
         NEW outcome \in Outcomes, NEW state, Attempted(outcome, state),
         \/ outcome = "answer" /\ state = "answered"
         \/ outcome \in {"refusal", "exception"} /\ state \in {"authentication", "raised"}
         \/ /\ outcome = "failure"
            /\ state = IF call.attempt < settings.max_retries THEN "sleeping" ELSE "exhausted"
  PROVE  RetryInv'
<1>1. /\ call'.state = state /\ call'.outcomes = Append(call.outcomes, outcome)
      /\ call'.attempt = call.attempt /\ call'.slept = call.slept
  BY DEF RetryTypes, Attempted
<1>2. call.outcomes \in Seq(Outcomes) /\ call.attempt \in Nat /\ Len(call.outcomes) = call.attempt
  BY DEF RetryTypes, CallTypeOK, RetryInv
<1>3. /\ Len(call'.outcomes) = call.attempt + 1 /\ call'.outcomes[call.attempt + 1] = outcome
      /\ \A i \in 1..call.attempt : call'.outcomes[i] = call.outcomes[i]
  BY <1>1, <1>2
<1>4. /\ call'.attempt \in 0..settings'.max_retries
      /\ \A i \in 1..call'.attempt : call'.outcomes[i] = "failure"
      /\ call'.slept = settings'.retry_backoff_base.num * (PowerOfTwo[call'.attempt] - 1)
  BY <1>1, <1>3, Zenon DEF RetryInv
<1>5. \/ state \in {"answered", "authentication", "raised"}
      \/ state = "sleeping" /\ call.attempt < settings.max_retries
      \/ state = "exhausted" /\ ~(call.attempt < settings.max_retries)
  OBVIOUS
<1>6. state = "exhausted" => call.attempt = settings.max_retries
  BY <1>5 DEF RetryInv, RetryTypes
<1> QED
  BY <1>1, <1>3, <1>4, <1>5, <1>6 DEF RetryInv

\* One more pause.
LEMMA RetrySleep ==
  ASSUME RetryTypes, RetryInv, Sleep, UNCHANGED settings
  PROVE  RetryInv'
<1> DEFINE base == settings.retry_backoff_base.num
           a == call.attempt
<1>1. CASE call' = [call EXCEPT !.state = "raised"]
  <2>1. /\ call'.state = "raised" /\ call'.outcomes = call.outcomes
        /\ call'.attempt = call.attempt /\ call'.slept = call.slept
    BY <1>1 DEF RetryTypes
  <2>2. call.state = "sleeping"
    BY DEF Sleep
  <2> QED
    BY <2>1, <2>2 DEF RetryInv
<1>2. CASE call' = [call EXCEPT !.state = "trying", !.attempt = @ + 1,
                               !.slept = @ + base * PowerOfTwo[a]]
  <2>1. /\ call'.state = "trying" /\ call'.outcomes = call.outcomes
        /\ call'.attempt = a + 1 /\ call'.slept = call.slept + base * PowerOfTwo[a]
    BY <1>2 DEF RetryTypes
  <2>2. call.state = "sleeping" /\ base \in Int /\ a \in Nat
    BY DEF Sleep, RetryTypes, CallTypeOK
  <2>3. call'.slept = base * (PowerOfTwo[a + 1] - 1)
    <3>1. call.slept = base * (PowerOfTwo[a] - 1)
      BY DEF RetryInv
    <3> HIDE DEF base, a
    <3> QED
      BY <2>1, <2>2, <3>1, PauseAdded
  <2>4. /\ call'.attempt \in 0..settings.max_retries
        /\ \A i \in 1..call'.attempt : call'.outcomes[i] = "failure"
        /\ Len(call'.outcomes) = call'.attempt
    BY <2>1, <2>2 DEF RetryInv, RetryTypes
  <2> QED
    BY <2>1, <2>3, <2>4, Zenon DEF RetryInv
<1> QED
  BY <1>1, <1>2 DEF Sleep

\* The steps of the process and of the pipeline keep both.
LEMMA RetryTyped ==
  ASSUME LoadInv, EngineTypeOK, EngineTypeOK', RetryTypes, [EngineNext]_engineVars
  PROVE  RetryTypes'
<1>1. CallTypeOK' /\ settings'.max_retries \in Nat
  BY DEF EngineTypeOK
<1>2. CASE Construct
  <2>1. "api" \in Sections /\ "retry_backoff_base" \in Fields("api")
    BY DEF Sections, Defaults, Fields, ApiConfig
  <2>2. config["api"]["retry_backoff_base"].num \in Int
    BY <1>2, <2>1, CoercedFits DEF Construct, LoadInv, Fields, WellFormed
  <2>3. settings'.retry_backoff_base.num \in Int
    BY <1>2, <2>2 DEF Construct
  <2>4. UNCHANGED call /\ stage' # "none"
    BY <1>2 DEF Construct
  <2> QED
    BY <1>1, <2>3, <2>4 DEF RetryTypes
<1>3. CASE \/ Edit \/ GenerateDefault \/ GenerationCut \/ LoadConfig \/ LoadFails \/ Quit
           \/ SearchEnds \/ UNCHANGED <<loadVars, call, stage>>
  <2>1. UNCHANGED <<settings, call>> /\ (stage' = "none" => stage = "none")
    BY <1>3 DEF Edit, GenerateDefault, GenerationCut, LoadConfig, LoadFails, Quit, SearchEnds,
       loadVars
  <2> QED
    BY <1>1, <2>1 DEF RetryTypes
<1>4. CASE AskModel
  <2>1. UNCHANGED settings /\ stage' # "none" /\ DOMAIN call' = DOMAIN Idle
    BY <1>4 DEF AskModel, Ask, Idle, loadVars, PurposeOf
  <2> QED
    BY <1>1, <2>1 DEF RetryTypes, Idle
<1>5. CASE ModelWorks
  <2>1. UNCHANGED <<settings, stage>> /\ call.state \in {"trying", "sleeping"}
    BY <1>5 DEF ModelWorks, LlmStep, Answered, Refused, Exception, Failed, Sleep, loadVars
  <2>2. DOMAIN call' = DOMAIN call
    BY <1>5 DEF ModelWorks, LlmStep, Answered, Refused, Exception, Failed, Sleep, Attempted
  <2>3. stage # "none"
    BY <2>1 DEF RetryTypes, Idle
  <2> QED
    BY <1>1, <2>1, <2>2, <2>3 DEF RetryTypes
<1>6. CASE DecomposeEnds \/ SummaryEnds \/ NoiseEnds
  <2>1. UNCHANGED settings /\ call' = Idle
    BY <1>6 DEF DecomposeEnds, SummaryEnds, NoiseEnds, Taken, loadVars
  <2> QED
    BY <1>1, <2>1 DEF RetryTypes, Idle
<1> QED
  BY <1>2, <1>3, <1>4, <1>5, <1>6 DEF EngineNext, Stages, Searches, engineVars

\* The requests are counted right by every step.
LEMMA RetryStep ==
  ASSUME LoadInv, RetryTypes, RetryTypes', RetryInv, [EngineNext]_engineVars
  PROVE  RetryInv'
<1>1. ASSUME call' = Idle PROVE RetryInv'
  <2>1. settings'.max_retries \in Nat /\ settings'.retry_backoff_base.num \in Int
    BY DEF RetryTypes
  <2>2. \A b \in Int : b * (PowerOfTwo[0] - 1) = 0
    BY PowersOfTwo
  <2>3. /\ call'.state = "idle" /\ call'.attempt = 0 /\ call'.slept = 0 /\ call'.outcomes = <<>>
        /\ 0 \in 0..settings'.max_retries /\ Len(<<>>) = 0 /\ 1..0 = {}
    BY <1>1, <2>1 DEF Idle
  <2> QED
    BY <2>1, <2>2, <2>3 DEF RetryInv
<1>2. ASSUME UNCHANGED <<settings, call>> PROVE RetryInv'
  BY <1>2 DEF RetryInv
<1>3. CASE Construct
  <2>1. stage = "none"
    BY <1>3 DEF Construct, LoadInv
  <2>2. call' = Idle
    BY <1>3, <2>1 DEF Construct, RetryTypes
  <2> QED
    BY <1>1, <2>2
<1>4. CASE \/ Edit \/ GenerateDefault \/ GenerationCut \/ LoadConfig \/ LoadFails \/ Quit
           \/ SearchEnds \/ UNCHANGED <<loadVars, call, stage>>
  BY <1>2, <1>4 DEF Edit, GenerateDefault, GenerationCut, LoadConfig, LoadFails, Quit, SearchEnds,
     loadVars
<1>5. CASE AskModel
  <2>1. call = Idle /\ UNCHANGED settings
    BY <1>5 DEF AskModel, Ask, loadVars
  <2>2. /\ call'.outcomes = <<>> /\ call'.attempt = 0 /\ call'.slept = 0
        /\ call'.state \in {"trying", "unknown"}
    BY <1>5 DEF AskModel, Ask, Idle
  <2>3. call.state = "idle" /\ call.outcomes = <<>> /\ call.attempt = 0 /\ call.slept = 0
    BY <2>1 DEF Idle
  <2> QED
    BY <2>1, <2>2, <2>3 DEF RetryInv
<1>6. CASE ModelWorks
  <2>1. UNCHANGED settings /\ LlmStep
    BY <1>6 DEF ModelWorks, loadVars
  <2>2. CASE Answered
    BY <2>1, <2>2, RetryAttempt DEF Answered, Outcomes
  <2>3. CASE Refused
    BY <2>1, <2>3, RetryAttempt DEF Refused, Outcomes
  <2>4. CASE Exception
    BY <2>1, <2>4, RetryAttempt DEF Exception, Outcomes
  <2>5. CASE Failed
    BY <2>1, <2>5, RetryAttempt DEF Failed, Outcomes
  <2>6. CASE Sleep
    BY <2>1, <2>6, RetrySleep
  <2> QED
    BY <2>1, <2>2, <2>3, <2>4, <2>5, <2>6 DEF LlmStep
<1>7. CASE DecomposeEnds \/ SummaryEnds \/ NoiseEnds
  BY <1>1, <1>7 DEF DecomposeEnds, SummaryEnds, NoiseEnds, Taken
<1> QED
  BY <1>3, <1>4, <1>5, <1>6, <1>7 DEF EngineNext, Stages, Searches, engineVars

\* The types of the request and what it has been answered so far, at every step.
LEMMA Retried == EngineSpec => [](RetryTypes /\ RetryInv)
<1>1. EngineInit => RetryTypes /\ RetryInv
  <2> SUFFICES ASSUME EngineInit PROVE RetryTypes /\ RetryInv
    OBVIOUS
  <2>1. /\ call = Idle /\ settings.max_retries = 0 /\ settings.retry_backoff_base.num = 0
    BY DEF EngineInit, NoSettings, Decimal, Value
  <2>2. CallTypeOK
    BY <2>1 DEF CallTypeOK, Idle
  <2> QED
    BY <2>1, <2>2, RetryIdle DEF RetryTypes, Idle
<1> QED
  BY <1>1, RetryTyped, RetryStep, Loaded, EngineTypes, PTL DEF EngineSpec

\* A request is repeated only after a failure in passing, at most max_retries times, and
\* exactly so often before the client gives up; the pauses add up to base * (2^n - 1)
\* after n of them, with whatever config.toml says (llm_client.py:157-196).
THEOREM RetriesAreBounded == EngineSpec => []RetriesBounded
<1>1. RetryTypes /\ RetryInv => RetriesBounded
  <2> SUFFICES ASSUME RetryTypes, RetryInv PROVE RetriesBounded
    OBVIOUS
  <2>1. /\ call.state \in {"idle", "answered"} \cup Unfinished \cup Raised
        /\ call.attempt \in Nat /\ settings.max_retries \in Nat
    BY DEF RetryTypes, CallTypeOK
  <2>2. Len(call.outcomes) \in {call.attempt, call.attempt + 1}
    BY <2>1 DEF RetryInv, Unfinished, Raised
  <2>3. Len(call.outcomes) = call.attempt + 1 => Len(call.outcomes) <= settings.max_retries + 1
    BY <2>1 DEF RetryInv
  <2>4. \A i \in 1..(Len(call.outcomes) - 1) : i \in 1..call.attempt
    BY <2>1, <2>2
  <2>5. HasText => call.outcomes[Len(call.outcomes)] = "answer"
    BY DEF RetryInv, HasText
  <2>6. Len(call.outcomes) <= settings.max_retries + 1
    BY <2>1, <2>2, <2>3 DEF RetryInv
  <2>7. call.state = "exhausted" => Len(call.outcomes) = settings.max_retries + 1
    BY DEF RetryInv
  <2>8. \A i \in 1..call.attempt : call.outcomes[i] = "failure"
    BY DEF RetryInv
  <2>9. call.slept = settings.retry_backoff_base.num * (PowerOfTwo[call.attempt] - 1)
    BY DEF RetryInv
  <2> QED
    BY <2>4, <2>5, <2>6, <2>7, <2>8, <2>9, Zenon DEF RetriesBounded
<1> QED
  BY <1>1, Retried, PTL

-----------------------------------------------------------------------------
(* The pipeline ends.                                                      *)

\* What is still to be done for each query: (1) a thread takes it, (2) its search ends,
\* (3) the loop is told so.
Due ==
  {d \in Calls \X (1..3) :
     \/ d[2] = 1 /\ worker[d[1]] = "queued"
     \/ d[2] = 2 /\ worker[d[1]] \in {"queued", "running"}
     \/ d[2] = 3 /\ d[1] \notin delivered}

\* The steps before search_parallel, its callers and its threads at most; before the
\* queries are made, of as many as the model may propose.
SearchLeft ==
  CASE pc = "idle" -> 6 + 3 * MaxItems
    [] pc = "parallel" -> 3 + Cardinality(Due)
    [] pc = "gather" -> 2 + Cardinality(Due)
    [] pc = "closing" -> 1 + Cardinality(Due)
    [] pc \in {"returned", "failed"} -> Cardinality(Due)

\* The steps of the present request: two for each retry that is left.
RequestLeft == 2 * (settings.max_retries - call.attempt)
CallLeft ==
  CASE call.state = "trying" -> 1 + RequestLeft
    [] call.state = "sleeping" -> RequestLeft
    [] call.state = "idle" /\ stage \in DOMAIN PurposeOf -> 2 + 2 * settings.max_retries
    [] call.state = "idle" /\ stage \notin DOMAIN PurposeOf -> 0
    [] call.state \in {"answered"} \cup Raised -> 0

\* The steps of the later stages.
StageLeft ==
  CASE stage = "decompose" -> 8 + 4 * settings.max_retries
    [] stage = "search" -> 7 + 4 * settings.max_retries
    [] stage = "summarize" -> 4 + 2 * settings.max_retries
    [] stage = "noise" -> 1
    [] stage \in {"none", "done", "failed"} -> 0

PipelineLeft == StageLeft + CallLeft + SearchLeft

\* Every step of a running pipeline, of its caller, its threads, its requests or its
\* timeouts, leaves fewer steps before it.
PipelineShortens == [][phase = "running" => PipelineLeft' < PipelineLeft]_engineVars

\* While it has not ended, the stage has a step that no search and no other thread can
\* withhold: a request to make, to try, to wait for or to take; or the loop to start,
\* to end by its timeout, or to leave.
PipelineGoesOn ==
  phase = "running" =>
    \/ stage \in {"done", "failed"}
    \/ /\ stage \in DOMAIN PurposeOf
       /\ call = Idle \/ call.state \in Unfinished \/ Ended
       /\ stage = "decompose" => pc = "idle"
    \/ stage = "search" /\ pc \in {"parallel", "gather", "closing", "returned"}

\* With it: where the callers are in each stage, and when there is no request.
PipelineInv ==
  /\ (phase = "running") <=> (stage # "none")
  /\ stage \in {"none", "decompose"} => pc = "idle"
  /\ pc = "idle" => queries = <<>>
  /\ stage = "search" => pc \in {"parallel", "gather", "closing", "returned"}
  /\ stage \in {"none", "search", "done", "failed"} => call = Idle
  /\ call.state = "idle" => call = Idle

\* Steps left, by the number of retries and of the lines that a model may propose.
PipelineBound ==
  phase = "running" => PipelineLeft \in 0..(16 + 6 * settings.max_retries + 3 * MaxItems)

\* What is due is a finite set, of three steps for each query at most.
LEMMA DueCounted ==
  ASSUME NEW X, NEW q \in Seq(X), NEW D \in SUBSET ((DOMAIN q) \X (1..3))
  PROVE  IsFiniteSet(D) /\ Cardinality(D) \in Nat /\ Cardinality(D) <= 3 * Len(q)
<1>1. DOMAIN q = 1..Len(q) /\ Len(q) \in Nat
  OBVIOUS
<1>0. ASSUME NEW n \in Nat PROVE IsFiniteSet(1..n) /\ Cardinality(1..n) = n
  BY FS_Interval
<1>2. IsFiniteSet(1..Len(q)) /\ Cardinality(1..Len(q)) = Len(q)
  BY <1>0, <1>1, Zenon
<1>3. IsFiniteSet(1..3) /\ Cardinality(1..3) = 3
  BY <1>0, 3 \in Nat, Zenon
<1>4. IsFiniteSet((DOMAIN q) \X (1..3)) /\ Cardinality((DOMAIN q) \X (1..3)) = Len(q) * 3
  BY <1>1, <1>2, <1>3, FS_Product
<1>5. IsFiniteSet(D) /\ Cardinality(D) <= Cardinality((DOMAIN q) \X (1..3))
  BY <1>4, FS_Subset
<1>6. Cardinality(D) \in Nat
  BY <1>5, FS_CardinalityType
<1> QED
  BY <1>1, <1>4, <1>5, <1>6

\* A part of a finite set that is not all of it has fewer members.
LEMMA FewerMembers ==
  ASSUME NEW S, IsFiniteSet(S), NEW T \in SUBSET S
  PROVE  Cardinality(T) <= Cardinality(S) /\ (T # S => Cardinality(T) < Cardinality(S))
<1>1. IsFiniteSet(T) /\ Cardinality(T) <= Cardinality(S) /\ (Cardinality(S) = Cardinality(T) => S = T)
  BY FS_Subset
<1>2. Cardinality(T) \in Nat /\ Cardinality(S) \in Nat
  BY <1>1, FS_CardinalityType
<1> QED
  BY <1>1, <1>2

\* A model may propose no more queries than its response has lines, or the topic.
LEMMA SubqueriesBounded ==
  ASSUME NEW items \in Items, NEW limit \in Nat \ {0}
  PROVE  Len(Subqueries(items, limit)) <= MaxItems + 1
<1>1. PICK n \in 0..MaxItems : items \in [1..n -> Texts]
  BY Zenon DEF Items
<1>2. items \in Seq(Texts) /\ Len(items) = n /\ n \in Nat /\ MaxItems \in Nat
  BY <1>1, SearchAssumption
<1>3. CASE items = <<>>
  BY <1>2, <1>3 DEF Subqueries
<1>4. CASE items # <<>>
  <2> DEFINE k == IF n < limit THEN n ELSE limit
  <2>1. n # 0
    BY <1>2, <1>4
  <2>2. k \in 1..n
    BY <1>2, <2>1
  <2>3. Subqueries(items, limit) = SubSeq(items, 1, k)
    BY <1>2, <1>4, Zenon DEF Subqueries
  <2> HIDE DEF k
  <2>4. Len(SubSeq(items, 1, k)) = k
    BY <1>2, <2>2
  <2> QED
    BY <1>1, <1>2, <2>2, <2>3, <2>4
<1> QED
  BY <1>3, <1>4

\* The numbers of steps before and after a step of the searches.
LEMMA SearchLeftIs ==
  ASSUME TypeOK
  PROVE  /\ IsFiniteSet(Due) /\ Cardinality(Due) \in Nat /\ MaxItems \in Nat
         /\ SearchLeft \in Nat
         /\ queries = <<>> => Cardinality(Due) = 0
<1>1. queries \in Seq(Texts \cup {Topic}) /\ Due \subseteq (DOMAIN queries) \X (1..3)
  BY Zenon DEF TypeOK, Due, Calls
<1>2. IsFiniteSet(Due) /\ Cardinality(Due) \in Nat /\ Cardinality(Due) <= 3 * Len(queries)
  BY <1>1, DueCounted
<1>3. pc \in {"idle", "parallel", "gather", "closing", "returned", "failed"} /\ MaxItems \in Nat
  BY SearchAssumption DEF TypeOK
<1>4. SearchLeft \in Nat
  BY <1>2, <1>3 DEF SearchLeft
<1>5. queries = <<>> => Len(queries) = 0
  OBVIOUS
<1> QED
  BY <1>2, <1>3, <1>4, <1>5

\* The same in the next state.
LEMMA SearchLeftNext ==
  ASSUME TypeOK'
  PROVE  Cardinality(Due') \in Nat /\ SearchLeft' \in Nat /\ Cardinality(Due') <= 3 * Len(queries')
<1>1. queries' \in Seq(Texts \cup {Topic}) /\ Due' \subseteq (DOMAIN queries') \X (1..3)
  BY Zenon DEF TypeOK, Due, Calls
<1>2. Cardinality(Due') \in Nat /\ Cardinality(Due') <= 3 * Len(queries')
  BY <1>1, DueCounted
<1>3. pc' \in {"idle", "parallel", "gather", "closing", "returned", "failed"} /\ MaxItems \in Nat
  BY SearchAssumption DEF TypeOK
<1> QED
  BY <1>2, <1>3 DEF SearchLeft

\* The steps of search_parallel: of its caller, its loop and its threads.
SearchStep == Loop \/ TakeCall \/ (\E i \in Calls : Search(i)) \/ Expire \/ JoinExpires

\* Each step of the searches shortens them.
LEMMA SearchShortens ==
  ASSUME TypeOK, TypeOK', SearchStep, pc = "idle" => queries = <<>>
  PROVE  SearchLeft' < SearchLeft
<1>0. /\ IsFiniteSet(Due) /\ Cardinality(Due) \in Nat /\ Cardinality(Due') \in Nat
      /\ worker \in [Calls -> {"queued", "running", "ended", "cancelled"}]
  BY SearchLeftIs, SearchLeftNext DEF TypeOK
<1>1. CASE StartLoop \/ Gather \/ CloseLoop \/ JoinExpires
  <2>1. Due' = Due
    BY <1>1 DEF StartLoop, Gather, CloseLoop, JoinExpires, Due, Calls
  <2>2. \/ pc = "parallel" /\ pc' = "gather"
        \/ pc = "gather" /\ pc' = "closing"
        \/ pc = "closing" /\ pc' = "returned"
    BY <1>1 DEF StartLoop, Gather, CloseLoop, JoinExpires
  <2> QED
    BY <1>0, <2>1, <2>2 DEF SearchLeft
<1>2. CASE Expire
  <2>1. Due' \subseteq Due
    BY <1>0, <1>2 DEF Expire, Due, Calls
  <2>2. Cardinality(Due') <= Cardinality(Due)
    BY <1>0, <2>1, FewerMembers
  <2> QED
    BY <1>0, <1>2, <2>2 DEF Expire, SearchLeft
<1>3. CASE TakeCall \/ (\E i \in Calls : Search(i)) \/ (\E i \in Calls : Deliver(i))
  <2>1. UNCHANGED <<pc, queries>>
    BY <1>3 DEF TakeCall, Search, Deliver
  <2>2. Due' \subseteq Due /\ Due' # Due
    <3>1. CASE TakeCall
      <4>1. PICK i \in Calls : worker[i] = "queued" /\ worker' = [worker EXCEPT ![i] = "running"]
        BY <3>1 DEF TakeCall, WithState
      <4>2. <<i, 1>> \in Due /\ <<i, 1>> \notin Due'
        BY <1>0, <4>1 DEF Due
      <4>3. Due' \subseteq Due
        BY <1>0, <2>1, <3>1, <4>1 DEF Due, TakeCall, Calls
      <4> QED
        BY <4>2, <4>3
    <3>2. ASSUME NEW i \in Calls, Search(i) PROVE Due' \subseteq Due /\ Due' # Due
      <4>1. worker[i] = "running" /\ worker' = [worker EXCEPT ![i] = "ended"] /\ delivered' = delivered
        BY <3>2 DEF Search
      <4>2. <<i, 2>> \in Due /\ <<i, 2>> \notin Due'
        BY <1>0, <4>1 DEF Due
      <4>3. Due' \subseteq Due
        BY <1>0, <2>1, <4>1 DEF Due, Calls
      <4> QED
        BY <4>2, <4>3
    <3>3. ASSUME NEW i \in Calls, Deliver(i) PROVE Due' \subseteq Due /\ Due' # Due
      <4>1. i \notin delivered /\ delivered' = delivered \cup {i} /\ worker' = worker /\ worker[i] = "ended"
        BY <3>3 DEF Deliver
      <4>2. <<i, 3>> \in Due /\ <<i, 3>> \notin Due'
        BY <4>1 DEF Due
      <4>3. Due' \subseteq Due
        BY <2>1, <4>1 DEF Due, Calls
      <4> QED
        BY <4>2, <4>3
    <3> QED
      BY <1>3, <3>1, <3>2, <3>3
  <2>3. Cardinality(Due') < Cardinality(Due)
    BY <1>0, <2>2, FewerMembers
  <2>4. pc # "idle"
    <3>1. Calls # {}
      BY <1>3 DEF TakeCall, WithState
    <3> QED
      BY <3>1 DEF Calls
  <2>5. pc \in {"parallel", "gather", "closing", "returned", "failed"}
    BY <2>4 DEF TypeOK
  <2> QED
    BY <1>0, <2>1, <2>3, <2>5 DEF SearchLeft
<1> QED
  BY <1>1, <1>2, <1>3 DEF SearchStep, Loop

\* Nor does the choice of the queries lengthen them.
LEMMA DecomposeShortens ==
  ASSUME TypeOK, TypeOK', NEW limit \in Nat \ {0}, DecomposeQuery(limit), queries = <<>>
  PROVE  SearchLeft' <= SearchLeft
<1>0. /\ Cardinality(Due') \in Nat /\ Cardinality(Due') <= 3 * Len(queries')
      /\ MaxItems \in Nat /\ pc = "idle" /\ SearchLeft = 6 + 3 * MaxItems
  BY SearchLeftIs, SearchLeftNext DEF DecomposeQuery, SearchLeft
<1>1. CASE pc' = "parallel" /\ \E items \in Items : queries' = Subqueries(items, limit)
  <2>1. Len(queries') <= MaxItems + 1 /\ Len(queries') \in Nat
    BY <1>1, SubqueriesBounded, SubqueriesTyped
  <2>2. SearchLeft' = 3 + Cardinality(Due')
    BY <1>1 DEF SearchLeft
  <2> QED
    BY <1>0, <2>1, <2>2
<1>2. CASE pc' = "failed" /\ UNCHANGED queries
  <2>1. Len(queries') = 0
    BY <1>2
  <2>2. SearchLeft' = Cardinality(Due')
    BY <1>2 DEF SearchLeft
  <2> QED
    BY <1>0, <2>1, <2>2
<1> QED
  BY <1>1, <1>2 DEF DecomposeQuery

\* What is left of a request, by its state, its attempt, the stage and the retries.
RequestIs(n, state, a, s, r) ==
  /\ n \in Nat
  /\ state = "trying" => n = 1 + 2 * (r - a)
  /\ state = "sleeping" => n = 2 * (r - a)
  /\ state = "idle" /\ s \in DOMAIN PurposeOf => n = 2 + 2 * r
  /\ state = "idle" /\ s \notin DOMAIN PurposeOf => n = 0
  /\ state \in {"answered"} \cup Raised => n = 0

\* The number of steps is what the request says, now and in the next state.
LEMMA RequestLeftIs ==
  ASSUME RetryTypes, RetryInv
  PROVE  RequestIs(CallLeft, call.state, call.attempt, stage, settings.max_retries)
<1>1. /\ call.state \in {"idle", "answered"} \cup Unfinished \cup Raised
      /\ settings.max_retries \in Nat /\ call.attempt \in 0..settings.max_retries
  BY DEF RetryTypes, RetryInv, CallTypeOK
<1>2. RequestLeft \in Nat
  BY <1>1 DEF RequestLeft
<1>3. CASE call.state \in {"trying", "sleeping"}
  BY <1>1, <1>2, <1>3 DEF CallLeft, RequestLeft, RequestIs, Raised
<1>4. CASE call.state = "idle"
  BY <1>1, <1>4 DEF CallLeft, RequestIs, Raised
<1>5. CASE call.state \in {"answered"} \cup Raised
  BY <1>1, <1>5 DEF CallLeft, RequestIs, Raised
<1> QED
  BY <1>1, <1>3, <1>4, <1>5 DEF Unfinished

LEMMA RequestLeftNext ==
  ASSUME RetryTypes', RetryInv'
  PROVE  RequestIs(CallLeft', call'.state, call'.attempt, stage', settings'.max_retries)
<1>1. /\ call'.state \in {"idle", "answered"} \cup Unfinished \cup Raised
      /\ settings'.max_retries \in Nat /\ call'.attempt \in 0..settings'.max_retries
  BY DEF RetryTypes, RetryInv, CallTypeOK
<1>2. RequestLeft' \in Nat
  BY <1>1 DEF RequestLeft
<1>3. CASE call'.state \in {"trying", "sleeping"}
  BY <1>1, <1>2, <1>3 DEF CallLeft, RequestLeft, RequestIs, Raised
<1>4. CASE call'.state = "idle"
  BY <1>1, <1>4 DEF CallLeft, RequestIs, Raised
<1>5. CASE call'.state \in {"answered"} \cup Raised
  BY <1>1, <1>5 DEF CallLeft, RequestIs, Raised
<1> QED
  BY <1>1, <1>3, <1>4, <1>5 DEF Unfinished

\* A step of a request shortens it: an attempt by the retry it uses up.
LEMMA RequestShortens ==
  ASSUME RetryTypes, RetryInv, RetryTypes', RetryInv', LlmStep, UNCHANGED <<settings, stage>>
  PROVE  CallLeft' < CallLeft
<1> DEFINE r == settings.max_retries
           a == call.attempt
<1>0. /\ r \in Nat /\ a \in 0..r
      /\ RequestIs(CallLeft, call.state, a, stage, r)
      /\ RequestIs(CallLeft', call'.state, call'.attempt, stage, r)
  BY RequestLeftIs, RequestLeftNext DEF RetryTypes, RetryInv
<1>1. CASE Answered \/ Refused \/ Exception \/ Failed
  <2>1. /\ call.state = "trying" /\ call'.attempt = a
        /\ \/ call'.state \in {"answered"} \cup Raised
           \/ call'.state = "sleeping"
    BY <1>1 DEF Answered, Refused, Exception, Failed, Attempted, RetryTypes, Raised
  <2> HIDE DEF r, a
  <2>2. CallLeft = 1 + 2 * (r - a) /\ CallLeft' \in {0, 2 * (r - a)}
    BY <1>0, <2>1 DEF RequestIs
  <2> QED
    BY <1>0, <2>2
<1>2. CASE Sleep
  <2>1. /\ call.state = "sleeping"
        /\ \/ call'.state = "trying" /\ call'.attempt = a + 1
           \/ call'.state = "raised"
    BY <1>2, Zenon DEF Sleep, RetryTypes
  <2>2. a < r
    BY <2>1 DEF RetryInv
  <2> HIDE DEF r, a
  <2>3. CallLeft = 2 * (r - a)
    BY <1>0, <2>1 DEF RequestIs
  <2>4. CallLeft' \in {0, 1 + 2 * (r - (a + 1))}
    BY <1>0, <2>1 DEF RequestIs, Raised
  <2> QED
    BY <1>0, <2>2, <2>3, <2>4
<1> QED
  BY <1>1, <1>2 DEF LlmStep

\* Every step keeps the invariant.
LEMMA PipelineStep ==
  ASSUME TypeOK, RetryTypes, LoadInv, PipelineInv, [EngineNext]_engineVars
  PROVE  PipelineInv'
<1>1. CASE Edit \/ GenerateDefault \/ GenerationCut \/ LoadConfig \/ LoadFails \/ Quit
  <2>1. UNCHANGED <<pc, queries, call, stage>> /\ phase # "running" /\ phase' # "running"
    BY <1>1 DEF Edit, GenerateDefault, GenerationCut, LoadConfig, LoadFails, Quit, searchVars, vars
  <2> QED
    BY <2>1 DEF PipelineInv
<1>2. CASE Construct
  <2>1. /\ UNCHANGED <<pc, queries, call>> /\ phase # "running" /\ phase' = "running"
        /\ stage' = "decompose"
    BY <1>2 DEF Construct, searchVars, vars
  <2> QED
    BY <2>1 DEF PipelineInv
<1>3. CASE AskModel
  <2>1. /\ UNCHANGED <<pc, queries, phase, stage>> /\ stage \in DOMAIN PurposeOf
        /\ call'.state \in {"trying", "unknown"}
    BY <1>3 DEF AskModel, Ask, Idle, searchVars, vars, loadVars
  <2> QED
    BY <2>1 DEF PipelineInv, PurposeOf
<1>4. CASE ModelWorks
  <2>1. UNCHANGED <<pc, queries, phase, stage>> /\ call.state \in {"trying", "sleeping"}
    BY <1>4 DEF ModelWorks, LlmStep, Answered, Refused, Exception, Failed, Sleep, searchVars, vars, loadVars
  <2>2. call'.state # "idle"
    <3>1. CASE Answered \/ Refused \/ Exception \/ Failed
      BY <3>1 DEF Answered, Refused, Exception, Failed, Attempted, RetryTypes
    <3>2. CASE Sleep
      BY <3>2, Zenon DEF Sleep, RetryTypes
    <3> QED
      BY <1>4, <3>1, <3>2 DEF ModelWorks, LlmStep
  <2>3. call # Idle
    BY <2>1 DEF Idle
  <2> QED
    BY <2>1, <2>2, <2>3 DEF PipelineInv
<1>5. CASE DecomposeEnds
  <2>1. /\ stage = "decompose" /\ call' = Idle /\ UNCHANGED phase
        /\ pc' \in {"parallel", "failed"} /\ (HasText <=> pc' = "parallel")
        /\ stage' = IF HasText THEN "search" ELSE "failed"
    BY <1>5 DEF DecomposeEnds, DecomposeQuery, Taken, loadVars
  <2> QED
    BY <2>1 DEF PipelineInv
<1>6. CASE SearchEnds \/ SummaryEnds \/ NoiseEnds
  <2>1. /\ UNCHANGED <<pc, queries, phase>> /\ call' = Idle
        /\ stage \in {"search", "summarize", "noise"} /\ stage' \in {"summarize", "noise", "done", "failed"}
    BY <1>6 DEF SearchEnds, SummaryEnds, NoiseEnds, Taken, searchVars, vars, loadVars, PipelineInv
  <2> QED
    BY <2>1 DEF PipelineInv
<1>7. CASE SearchStep /\ UNCHANGED <<loadVars, call, stage>>
  <2>1. UNCHANGED <<queries, phase, call, stage>>
    BY <1>7 DEF SearchStep, Loop, StartLoop, Deliver, Gather, CloseLoop, TakeCall, Search, Expire, JoinExpires,
       loadVars
  <2>2. \/ pc' = pc
        \/ pc \in {"parallel", "gather", "closing"} /\ pc' \in {"gather", "closing", "returned"}
    BY <1>7 DEF SearchStep, Loop, StartLoop, Deliver, Gather, CloseLoop, TakeCall, Search, Expire, JoinExpires
  <2> QED
    BY <2>1, <2>2 DEF PipelineInv
<1>8. CASE UNCHANGED engineVars
  BY <1>8 DEF PipelineInv, engineVars, searchVars, vars, loadVars
<1> QED
  BY <1>1, <1>2, <1>3, <1>4, <1>5, <1>6, <1>7, <1>8 DEF EngineNext, Stages, Searches, SearchStep

\* The steps of the later stages are as many as the retries allow.
LEMMA StageLeftIs ==
  ASSUME settings.max_retries \in Nat,
         stage \in {"none", "decompose", "search", "summarize", "noise", "done", "failed"}
  PROVE  StageLeft \in Nat
BY DEF StageLeft

\* A step of the running pipeline shortens it.
LEMMA StepShortens ==
  ASSUME EngineTypeOK, EngineTypeOK', RetryTypes, RetryInv, RetryTypes', RetryInv', LoadInv, PipelineInv,
         EngineNext, phase = "running"
  PROVE  PipelineLeft' < PipelineLeft /\ phase' = "running" /\ UNCHANGED settings
<1> DEFINE r == settings.max_retries
           n == SearchLeft
           c == CallLeft
           g == StageLeft
<1>1. /\ TypeOK /\ TypeOK' /\ r \in Nat /\ n \in Nat /\ n' \in Nat
      /\ RequestIs(c, call.state, call.attempt, stage, r)
      /\ RequestIs(c', call'.state, call'.attempt, stage', r')
      /\ c \in Nat /\ c' \in Nat
  BY SearchLeftIs, SearchLeftNext, RequestLeftIs, RequestLeftNext DEF EngineTypeOK, RequestIs
<1>2. CASE SearchStep /\ UNCHANGED <<loadVars, call, stage>>
  <2>1. n' < n
    BY <1>1, <1>2, SearchShortens DEF PipelineInv
  <2>2. c' = c /\ g' = g /\ UNCHANGED <<settings, phase>>
    BY <1>2 DEF CallLeft, RequestLeft, StageLeft, loadVars
  <2>3. g \in Nat
    BY StageLeftIs DEF EngineTypeOK
  <2> QED
    BY <1>1, <2>1, <2>2, <2>3 DEF PipelineLeft
<1>3. CASE AskModel \/ ModelWorks
  <2>1. n' = n /\ g' = g /\ UNCHANGED <<settings, phase, stage>>
    BY <1>3 DEF AskModel, ModelWorks, SearchLeft, Due, Calls, StageLeft, searchVars, vars, loadVars
  <2>2. g \in Nat
    BY StageLeftIs DEF EngineTypeOK
  <2>3. c' < c
    <3>1. CASE AskModel
      <4>1. /\ stage \in DOMAIN PurposeOf /\ call.state = "idle" /\ call'.attempt = 0
            /\ call'.state \in {"trying", "unknown"}
        BY <3>1 DEF AskModel, Ask, Idle
      <4>2. c = 2 + 2 * r /\ c' \in {0, 1 + 2 * (r - 0)}
        BY <1>1, <2>1, <4>1 DEF RequestIs, Raised
      <4> HIDE DEF r, c
      <4> QED
        BY <1>1, <4>2
    <3>2. CASE ModelWorks
      BY <2>1, <3>2, RequestShortens DEF ModelWorks
    <3> QED
      BY <1>3, <3>1, <3>2
  <2> QED
    BY <1>1, <2>1, <2>2, <2>3 DEF PipelineLeft
<1>4. CASE DecomposeEnds \/ SummaryEnds \/ NoiseEnds
  <2>1. UNCHANGED <<settings, phase>> /\ call'.state = "idle"
    BY <1>4 DEF DecomposeEnds, SummaryEnds, NoiseEnds, Taken, Idle, loadVars
  <2>2. n' <= n
    <3>1. CASE DecomposeEnds
      <4>1. r # -1 /\ settings.max_subqueries \in Nat \ {0} /\ DecomposeQuery(settings.max_subqueries)
        BY <3>1 DEF DecomposeEnds, EngineTypeOK
      <4> QED
        BY <1>1, <3>1, <4>1, DecomposeShortens DEF DecomposeEnds, PipelineInv
    <3>2. CASE SummaryEnds \/ NoiseEnds
      <4>1. n' = n
        BY <3>2 DEF SummaryEnds, NoiseEnds, SearchLeft, Due, Calls, searchVars, vars
      <4> QED
        BY <1>1, <4>1
    <3> QED
      BY <1>4, <3>1, <3>2
  <2>3. g' + c' < g + c
    <3>1. \/ stage = "decompose" /\ stage' \in {"search", "failed"}
          \/ stage = "summarize" /\ stage' \in {"noise", "failed"}
          \/ stage = "noise" /\ stage' \in {"done", "failed"}
      BY <1>4 DEF DecomposeEnds, SummaryEnds, NoiseEnds
    <3>2. c' = IF stage' = "noise" THEN 2 + 2 * r ELSE 0
      BY <1>1, <2>1, <3>1 DEF RequestIs, PurposeOf
    <3>3. \/ g = 8 + 4 * r /\ g' \in {7 + 4 * r, 0} /\ c' = 0
          \/ g = 4 + 2 * r /\ g' = 1 /\ c' = 2 + 2 * r
          \/ g = 4 + 2 * r /\ g' = 0 /\ c' = 0
          \/ g = 1 /\ g' = 0 /\ c' = 0
      BY <2>1, <3>1, <3>2 DEF StageLeft
    <3> HIDE DEF r, c, g
    <3> QED
      BY <1>1, <3>3
  <2>4. g \in Nat /\ g' \in Nat
    BY StageLeftIs DEF EngineTypeOK, StageLeft
  <2> QED
    BY <1>1, <2>1, <2>2, <2>3, <2>4 DEF PipelineLeft
<1>5. CASE SearchEnds
  <2>1. /\ UNCHANGED <<settings, phase, call>> /\ call = Idle /\ stage = "search" /\ stage' = "summarize"
    BY <1>5 DEF SearchEnds, loadVars, PipelineInv
  <2>2. n' = n
    BY <1>5 DEF SearchEnds, SearchLeft, Due, Calls, searchVars, vars
  <2>3. c = 0 /\ c' = 2 + 2 * r
    BY <1>1, <2>1 DEF RequestIs, PurposeOf, Idle
  <2>4. g = 7 + 4 * r /\ g' = 4 + 2 * r
    BY <2>1 DEF StageLeft
  <2> QED
    BY <1>1, <2>1, <2>2, <2>3, <2>4 DEF PipelineLeft
<1>6. CASE Edit \/ GenerateDefault \/ GenerationCut \/ LoadConfig \/ LoadFails \/ Quit \/ Construct
  BY <1>6 DEF Edit, GenerateDefault, GenerationCut, LoadConfig, LoadFails, Quit, Construct
<1> QED
  BY <1>2, <1>3, <1>4, <1>5, <1>6 DEF EngineNext, Stages, Searches, SearchStep

\* The steps left are a number of them, now and in the next state.
LEMMA LeftCounted ==
  ASSUME EngineTypeOK, RetryTypes, RetryInv
  PROVE  PipelineLeft \in Nat
<1>1. SearchLeft \in Nat /\ CallLeft \in Nat
  BY SearchLeftIs, RequestLeftIs DEF EngineTypeOK, RequestIs
<1>2. StageLeft \in Nat
  BY StageLeftIs DEF EngineTypeOK, StageLeft
<1> QED
  BY <1>1, <1>2 DEF PipelineLeft

LEMMA LeftCountedNext ==
  ASSUME EngineTypeOK', RetryTypes', RetryInv'
  PROVE  PipelineLeft' \in Nat
<1>1. SearchLeft' \in Nat /\ CallLeft' \in Nat
  BY SearchLeftNext, RequestLeftNext DEF EngineTypeOK, RequestIs
<1>2. StageLeft' \in Nat
  BY StageLeftIs DEF EngineTypeOK, StageLeft
<1>3. \A g, c, n \in Nat : g + c + n \in Nat
  OBVIOUS
<1>4. PipelineLeft' = StageLeft' + CallLeft' + SearchLeft'
  BY Zenon DEF PipelineLeft
<1> QED
  BY <1>1, <1>2, <1>3, <1>4, Zenon

\* A running pipeline has only so many steps as the retries of its three requests and
\* the lines of one response allow, whatever the requests and the searches do
\* (PipelineBound, PipelineShortens), and no stage is left without a step of its own,
\* even when a search hangs (PipelineGoesOn): the safety part of PipelineEnds, with
\* whatever config.toml says (agentic_search.py:109-414, llm_client.py:157-196).
THEOREM PipelineWindsDown ==
  EngineSpec => [](PipelineBound /\ PipelineGoesOn) /\ PipelineShortens
<1> DEFINE Types == EngineTypeOK /\ RetryTypes /\ RetryInv /\ LoadInv
<1>1. EngineSpec => []Types
  BY EngineTypes, Retried, Loaded, PTL
<1>2. EngineInit => PipelineInv /\ PipelineBound
  BY DEF EngineInit, Init, PipelineInv, PipelineBound
<1>3. Types /\ PipelineInv /\ [EngineNext]_engineVars => PipelineInv'
  BY PipelineStep DEF EngineTypeOK
<1>4. Types /\ Types' /\ PipelineInv /\ [EngineNext]_engineVars /\ phase = "running" /\ engineVars' # engineVars
        => PipelineLeft' < PipelineLeft /\ phase' = "running" /\ UNCHANGED settings
  BY StepShortens
<1>5. Types => PipelineLeft \in Int
  BY LeftCounted DEF EngineTypeOK
<1>6. Types /\ Types' /\ PipelineInv /\ PipelineBound /\ [EngineNext]_engineVars => PipelineBound'
  <2> SUFFICES ASSUME Types, Types', PipelineInv, PipelineBound, [EngineNext]_engineVars, phase' = "running"
               PROVE  PipelineLeft' \in 0..(16 + 6 * settings'.max_retries + 3 * MaxItems)
    BY DEF PipelineBound
  <2>0. /\ settings.max_retries \in Nat /\ settings'.max_retries \in Nat /\ MaxItems \in Nat
        /\ PipelineLeft' \in Nat
    BY LeftCountedNext, SearchAssumption DEF EngineTypeOK
  <2>1. CASE UNCHANGED engineVars
    <3>1. PipelineLeft' = PipelineLeft /\ UNCHANGED <<settings, phase>>
      BY <2>1 DEF engineVars, searchVars, loadVars, vars, PipelineLeft, StageLeft, CallLeft, RequestLeft,
                  SearchLeft, Due, Calls
    <3> QED
      BY <3>1 DEF PipelineBound
  <2>2. CASE phase = "running" /\ engineVars' # engineVars
    <3>1. PipelineLeft' < PipelineLeft /\ UNCHANGED settings
      BY <1>4, <2>2
    <3>2. PipelineLeft \in 0..(16 + 6 * settings.max_retries + 3 * MaxItems)
      BY <2>2 DEF PipelineBound
    <3> QED
      BY <2>0, <3>1, <3>2
  <2>3. CASE phase # "running" /\ engineVars' # engineVars
    <3>1. Construct
      BY <2>3 DEF EngineNext, Edit, GenerateDefault, GenerationCut, LoadConfig, LoadFails, Quit, Stages,
                  AskModel, ModelWorks, DecomposeEnds, SearchEnds, SummaryEnds, NoiseEnds, Searches,
                  loadVars, PipelineInv, PurposeOf
    <3>2. stage = "none" /\ call = Idle /\ pc = "idle"
      BY <2>3 DEF PipelineInv, EngineTypeOK
    <3>3. stage' = "decompose" /\ call'.state = "idle" /\ pc' = "idle"
      BY <3>1, <3>2 DEF Construct, searchVars, vars, Idle
    <3>4. StageLeft' = 8 + 4 * settings'.max_retries
      BY <3>3 DEF StageLeft
    <3>5. CallLeft' = 2 + 2 * settings'.max_retries
      BY <3>3, RequestLeftNext DEF RequestIs, PurposeOf
    <3>6. SearchLeft' = 6 + 3 * MaxItems
      BY <3>3 DEF SearchLeft
    <3> QED
      BY <2>0, <3>4, <3>5, <3>6 DEF PipelineLeft
  <2> QED
    BY <2>1, <2>2, <2>3
<1>7. Types /\ PipelineInv => PipelineGoesOn
  BY DEF PipelineGoesOn, PipelineInv, EngineTypeOK, RetryTypes, CallTypeOK, PurposeOf, Ended, Unfinished
<1>8. EngineSpec => [](PipelineInv /\ PipelineBound)
  BY <1>1, <1>2, <1>3, <1>6, PTL DEF EngineSpec
<1>9. Types /\ Types' /\ PipelineInv /\ [EngineNext]_engineVars
        => [phase = "running" => PipelineLeft' < PipelineLeft]_engineVars
  BY <1>4
<1> QED
  BY <1>1, <1>7, <1>8, <1>9, PTL DEF EngineSpec, PipelineShortens
=============================================================================
