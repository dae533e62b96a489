---------------------------- MODULE SettingsProofs ----------------------------
(* Theorems about Settings, for any pages, server lists, models and keys.     *)
EXTENDS Settings, TLAPS

\* What the proofs of the steps know about the constants and the data.
LEMMA Data ==
    /\ NoConfig \in Config
    /\ \A c \in Config : Whole(c) \in File
    /\ Unreadable("empty") \in File /\ Unreadable("garbled") \in File
    /\ NoSave \in Save
    /\ \A old \in Config, sent \in Sent : Merged(old, sent) \in Config
<1>1. NoConfig \in Config
  BY DEF NoConfig, Config, AnyServers, AnyModel, AnyKey
<1>2. \A c \in Config : Whole(c) \in File
  BY DEF Whole, File
<1>3. Unreadable("empty") \in File /\ Unreadable("garbled") \in File
  BY <1>1 DEF Unreadable, File
<1>4. NoSave \in Save
  BY <1>1 DEF NoSave, Save, NoSent, Sent, AnyServers, AnyModel, AnyKey
<1>5. \A old \in Config, sent \in Sent : Merged(old, sent) \in Config
  BY DEF Merged, Config, Sent, AnyServers, AnyModel, AnyKey
<1>6. QED
  BY <1>1, <1>2, <1>3, <1>4, <1>5

LEMMA TypeInit == Init => TypeOK
<1> SUFFICES ASSUME Init PROVE TypeOK
  OBVIOUS
<1>1. PICK c \in [servers : ServerLists, model : Models, key : AnyKey, other : {TRUE}] :
        file = Whole(c)
  BY DEF Init
<1>2. c \in Config /\ file.config = c
  BY <1>1 DEF Config, AnyServers, AnyModel, Whole
<1>3. mem \in [model : Models, key : AnyKey]
  BY <1>1, <1>2 DEF Init
<1>4. form \in [Pages -> Form] /\ gets \in [Pages -> SUBSET Answer]
      /\ lists \in [Pages -> SUBSET AnyModel]
  BY DEF Init, Form, AnyModel
<1>5. QED
  <2>1. file \in File /\ wanted \in Config
    BY <1>1, <1>2, Data DEF Init
  <2>2. save \in [Pages -> Save]
    BY Data DEF Init
  <2>3. loads \in 0..MaxLoads /\ saves \in 0..MaxSaves /\ crashes \in 0..MaxCrashes
    BY SettingsAssumption DEF Init
  <2>4. QED
    BY <1>3, <1>4, <2>1, <2>2, <2>3 DEF Init, TypeOK

LEMMA TypeAsk ==
    ASSUME TypeOK, NEW p \in Pages, NEW f \in Form, NEW model \in AnyModel,
           AskForModels(p, f, model)
    PROVE  form' \in [Pages -> Form] /\ lists' \in [Pages -> SUBSET AnyModel]
<1>1. [f EXCEPT !.model = NoModel, !.listed = FALSE] \in Form
  BY DEF Form, AnyModel
<1>2. form' \in [Pages -> Form]
  BY <1>1 DEF AskForModels, TypeOK
<1>3. lists' \in [Pages -> SUBSET AnyModel]
  BY DEF AskForModels, TypeOK
<1>4. QED
  BY <1>2, <1>3

\* The steps of a page that has the settings loaded or saves them.
LEMMA TypePage ==
    ASSUME TypeOK, NEW p \in Pages,
           \/ GetSettings(p) \/ LoadFails(p)
           \/ \E answer \in gets[p] : SettingsLoaded(p, answer)
           \/ \E model \in lists[p] :
                ModelsFail(p, model) \/ \E has \in BOOLEAN : ModelsListed(p, model, has)
           \/ \E f \in Edited(form[p]), k \in AnyKey : SaveSettings(p, f, k)
    PROVE  TypeOK'
<1>1. CASE GetSettings(p)
  <2>1. [servers |-> file.config.servers,
         model |-> IF file.config.model = NoModel THEN mem.model ELSE file.config.model,
         keySet |-> mem.key # NoKey] \in Answer
    BY DEF TypeOK, File, Config, Answer, AnyModel
  <2>2. QED
    BY <1>1, <2>1, SettingsAssumption
    DEF GetSettings, TypeOK, Adding, Harm, serverVars
<1>2. CASE LoadFails(p)
  BY <1>2, SettingsAssumption DEF LoadFails, TypeOK, Form, serverVars, history
<1>3. ASSUME NEW answer \in gets[p], SettingsLoaded(p, answer) PROVE TypeOK'
  <2>1. answer \in Answer /\ form[p] \in Form
    BY DEF TypeOK
  <2> DEFINE f == [form[p] EXCEPT !.servers = answer.servers]
  <2>2. f \in Form /\ answer.model \in AnyModel
    BY <2>1 DEF Form, Answer, AnyModel
  <2>3. form' \in [Pages -> Form] /\ lists' \in [Pages -> SUBSET AnyModel]
    <3>1. CASE answer.keySet
      <4>1. AskForModels(p, f, answer.model)
        BY <1>3, <3>1 DEF SettingsLoaded
      <4>2. QED
        BY <2>2, <4>1, TypeAsk
    <3>2. CASE ~answer.keySet
      <4>1. [f EXCEPT !.model = NoModel, !.listed = FALSE] \in Form
        BY <2>2 DEF Form, AnyModel
      <4>2. form' = [form EXCEPT ![p] = [f EXCEPT !.model = NoModel, !.listed = FALSE]]
            /\ lists' = lists
        BY <1>3, <3>2 DEF SettingsLoaded
      <4>3. QED
        BY <4>1, <4>2 DEF TypeOK
    <3>3. QED
      BY <3>1, <3>2
  <2>4. gets' \in [Pages -> SUBSET Answer]
    BY <1>3 DEF SettingsLoaded, TypeOK
  <2>5. QED
    BY <1>3, <2>3, <2>4 DEF SettingsLoaded, TypeOK, serverVars, counts, history
<1>4. ASSUME NEW model \in lists[p],
             ModelsFail(p, model) \/ \E has \in BOOLEAN : ModelsListed(p, model, has)
      PROVE TypeOK'
  <2>1. form[p] \in Form /\ model \in AnyModel
    BY DEF TypeOK
  <2>2. form' \in [Pages -> Form] /\ lists' \in [Pages -> SUBSET AnyModel]
    <3>1. [form[p] EXCEPT !.model = NoModel, !.listed = FALSE] \in Form
      BY <2>1 DEF Form, AnyModel
    <3>2. \A has \in BOOLEAN : Select(form[p], model, has) \in Form
      BY <2>1 DEF Select, Form
    <3>3. form' \in [Pages -> Form]
      BY <1>4, <3>1, <3>2 DEF TypeOK, ModelsFail, ModelsListed, Select
    <3>4. lists' \in [Pages -> SUBSET AnyModel]
      BY <1>4 DEF TypeOK, ModelsFail, ModelsListed
    <3>5. QED
      BY <3>3, <3>4
  <2>3. QED
    BY <1>4, <2>2 DEF TypeOK, ModelsFail, ModelsListed, serverVars, counts, history
<1>5. ASSUME NEW f \in Edited(form[p]), NEW k \in AnyKey, SaveSettings(p, f, k)
      PROVE TypeOK'
  <2>1. f \in Form /\ f.servers \in AnyServers
    BY <1>5 DEF TypeOK, SaveSettings, Edited, Form, AnyServers, AnyModel
  <2>2. [servers |-> f.servers, model |-> f.model, key |-> k] \in Sent
    BY <2>1 DEF Sent, Form
  <2>3. save' \in [Pages -> Save]
    BY <1>5, <2>2, Data DEF TypeOK, SaveSettings, Save
  <2>4. QED
    <3>1. harm' \subseteq Harm
      BY <1>5 DEF TypeOK, SaveSettings, Adding, Harm
    <3>2. form' \in [Pages -> Form]
      BY <1>5, <2>1 DEF TypeOK, SaveSettings
    <3>3. saves' \in 0..MaxSaves
      <4>1. saves < MaxSaves /\ saves' = saves + 1
        BY <1>5 DEF SaveSettings
      <4>2. QED
        BY <4>1, SettingsAssumption DEF TypeOK
    <3>4. QED
      BY <1>5, <2>3, <3>1, <3>2, <3>3 DEF TypeOK, SaveSettings, serverVars
<1>6. QED
  BY <1>1, <1>2, <1>3, <1>4, <1>5

\* The steps of the process.
LEMMA TypeProcess ==
    ASSUME TypeOK,
           \/ Crash \/ Start
           \/ \E p \in Pages : \/ ReadAndMerge(p) \/ OpenFile(p) \/ WriteFile(p)
                               \/ WriteFails(p) \/ SaveAnswered(p)
    PROVE  TypeOK'
<1>1. CASE Crash
  <2>1. save' \in [Pages -> Save]
    BY <1>1, Data DEF Crash, TypeOK, Save
  <2>2. QED
    <3>1. harm' \subseteq Harm
      BY <1>1 DEF Crash, TypeOK, Adding, Harm
    <3>2. crashes' \in 0..MaxCrashes
      BY <1>1, SettingsAssumption DEF Crash, TypeOK
    <3>3. QED
      BY <1>1, <2>1, <3>1, <3>2 DEF Crash, TypeOK, formVars
<1>2. CASE Start
  <2>1. mem' \in [model : Models, key : AnyKey]
    BY <1>2, SettingsAssumption DEF Start, TypeOK, File, Config, AnyModel
  <2>2. QED
    BY <1>2, <2>1 DEF Start, TypeOK, formVars, counts, history
<1>3. ASSUME NEW p \in Pages, ReadAndMerge(p) PROVE TypeOK'
  <2>1. save[p].sent \in Sent /\ file.config \in Config /\ save[p] \in Save
    BY DEF TypeOK, Save, File
  <2>2. save' \in [Pages -> Save]
    BY <1>3, <2>1, Data DEF ReadAndMerge, TypeOK, Save
  <2>3. mem' \in [model : Models, key : AnyKey]
    BY <1>3, <2>1 DEF ReadAndMerge, Remember, TypeOK, Sent, AnyModel, AnyKey
  <2>4. wanted' \in Config
    BY <1>3, <2>1 DEF ReadAndMerge, TypeOK, Config, Sent
  <2>5. QED
    BY <1>3, <2>2, <2>3, <2>4 DEF ReadAndMerge, TypeOK, Adding, Harm, formVars, counts
<1>4. ASSUME NEW p \in Pages, OpenFile(p) \/ WriteFile(p) PROVE TypeOK'
  <2>1. save' \in [Pages -> Save] /\ save[p].config \in Config
    BY <1>4 DEF OpenFile, WriteFile, TypeOK, Save
  <2>2. file' \in File
    BY <1>4, <2>1, Data DEF OpenFile, WriteFile, TypeOK
  <2>3. QED
    BY <1>4, <2>1, <2>2 DEF OpenFile, WriteFile, TypeOK, formVars, counts, history
<1>5. ASSUME NEW p \in Pages, WriteFails(p) PROVE TypeOK'
  BY <1>5, Data DEF WriteFails, TypeOK, Save, Adding, Harm, formVars, counts
<1>6. ASSUME NEW p \in Pages, SaveAnswered(p) PROVE TypeOK'
  <2>1. form' \in [Pages -> Form] /\ lists' \in [Pages -> SUBSET AnyModel]
    <3>1. form[p] \in Form /\ form[p].model \in AnyModel
      BY DEF TypeOK, Form
    <3>2. \/ AskForModels(p, form[p], form[p].model)
          \/ form' = form /\ lists' = lists
      BY <1>6 DEF SaveAnswered
    <3>3. QED
      BY <3>1, <3>2, TypeAsk DEF TypeOK
  <2>2. harm' \subseteq Harm
    BY <1>6 DEF SaveAnswered, Adding, Harm, TypeOK
  <2>3. QED
    BY <1>6, <2>1, <2>2, Data DEF SaveAnswered, TypeOK, serverVars, counts
<1>7. QED
  BY <1>1, <1>2, <1>3, <1>4, <1>5, <1>6

\* The settings, the forms, what is under way and the history keep their types.
THEOREM TypeCorrect == Spec => []TypeOK
<1>1. TypeOK /\ [Next]_vars => TypeOK'
  <2> SUFFICES ASSUME TypeOK, [Next]_vars PROVE TypeOK'
    OBVIOUS
  <2>1. CASE Next
    BY <2>1, TypePage, TypeProcess DEF Next
  <2>2. CASE UNCHANGED vars
    BY <2>2 DEF vars, serverVars, formVars, counts, history, TypeOK
  <2>3. QED
    BY <2>1, <2>2
<1>2. QED
  BY TypeInit, <1>1, PTL DEF Spec

-----------------------------------------------------------------------------
(* What is saved.  The file, the key and the model in memory are what the   *)
(* saves made of them because at most one save writes, because it writes    *)
(* what is wanted, and because no process runs that a write is left from.   *)

Sound == harm \cap {"overlap", "failed"} = {}

OneWriter ==
    \A p, q \in Pages : Writing(p) /\ Writing(q) => p = q

WriterInv ==
    \A p \in Pages : Writing(p) =>
        /\ save[p].config = wanted
        /\ save[p].phase = "write" => file.state = "empty"

FileInv == AtRest => file = Whole(wanted)

MemoryInv ==
    up => /\ mem.key = wanted.key
          /\ wanted.model \in {NoModel, mem.model}

DownInv == ~up => \A p \in Pages : save[p].phase \in {"none", "failed"}

SavedInv == DownInv /\ (Sound => OneWriter /\ WriterInv /\ FileInv /\ MemoryInv)

LEMMA SavedInit == Init => SavedInv
<1> SUFFICES ASSUME Init PROVE SavedInv
  OBVIOUS
<1>1. PICK c \in [servers : ServerLists, model : Models, key : AnyKey, other : {TRUE}] :
        file = Whole(c)
  BY DEF Init
<1>2. file = Whole(wanted) /\ wanted = c
  BY <1>1 DEF Init, Whole
<1>3. \A p \in Pages : ~Writing(p)
  BY DEF Init, NoSave, Writing
<1>4. mem.key = wanted.key /\ wanted.model = mem.model /\ up
  BY <1>2 DEF Init
<1>5. QED
  BY <1>2, <1>3, <1>4 DEF SavedInv, OneWriter, WriterInv, FileInv, MemoryInv, DownInv

\* A step that touches neither the file, the process nor a write.
LEMMA SavedElsewhere ==
    ASSUME TypeOK, SavedInv, UNCHANGED <<serverVars, wanted>>, harm \subseteq harm',
           \A p \in Pages : \/ save'[p] = save[p]
                            \/ up /\ save[p].phase = "none" /\ save'[p].phase = "sent"
                            \/ save[p].phase \in {"saved", "failed"} /\ save'[p].phase = "none"
    PROVE  SavedInv'
<1>1. \A p \in Pages : Writing(p)' => Writing(p) /\ save'[p] = save[p]
  BY DEF Writing
<1>2. \A p \in Pages : Writing(p) => Writing(p)'
  BY DEF Writing
<1>3. DownInv'
  BY DEF SavedInv, DownInv, serverVars
<1>4. ASSUME Sound' PROVE (OneWriter /\ WriterInv /\ FileInv /\ MemoryInv)'
  <2>1. Sound
    BY <1>4 DEF Sound
  <2>2. OneWriter /\ WriterInv /\ FileInv /\ MemoryInv
    BY <2>1 DEF SavedInv
  <2>3. OneWriter' /\ WriterInv'
    BY <1>1, <2>2 DEF OneWriter, WriterInv, serverVars
  <2>4. FileInv'
    BY <1>1, <1>2, <2>2 DEF FileInv, AtRest, serverVars
  <2>5. MemoryInv'
    BY <2>2 DEF MemoryInv, serverVars
  <2>6. QED
    BY <2>3, <2>4, <2>5
<1>5. QED
  BY <1>3, <1>4 DEF SavedInv

LEMMA SavedRead ==
    ASSUME TypeOK, SavedInv, NEW p \in Pages, ReadAndMerge(p)
    PROVE  SavedInv'
<1> DEFINE sent == save[p].sent
<1>1. /\ save[p].phase = "sent" /\ sent \in Sent /\ save[p] \in Save /\ up
      /\ wanted \in Config /\ mem \in [model : Models, key : AnyKey]
  BY DEF ReadAndMerge, TypeOK, Save, SavedInv, DownInv
<1>2. /\ save' = [save EXCEPT ![p].phase = "open", ![p].config = Merged(file.config, sent)]
      /\ mem' = [model |-> IF sent.model = NoModel THEN mem.model ELSE sent.model,
                 key |-> IF sent.key = NoKey THEN mem.key ELSE sent.key]
      /\ wanted' = [servers |-> sent.servers, model |-> sent.model, other |-> wanted.other,
                    key |-> IF sent.key = NoKey THEN wanted.key ELSE sent.key]
      /\ file' = file /\ up' = up
  BY DEF ReadAndMerge, Remember
<1>3. DownInv'
  BY <1>1, <1>2 DEF DownInv
<1>4. ASSUME Sound' PROVE (OneWriter /\ WriterInv /\ FileInv /\ MemoryInv)'
  <2>1. Sound /\ \A q \in Pages : ~Writing(q)
    BY <1>4 DEF ReadAndMerge, Adding, Sound
  <2>2. file = Whole(wanted) /\ MemoryInv
    BY <2>1 DEF SavedInv, FileInv, AtRest
  <2>3. Merged(file.config, sent) = wanted'
    <3>1. file.config = wanted
      BY <2>2 DEF Whole
    <3>2. Merged(wanted, sent) =
            [servers |-> sent.servers, model |-> sent.model, other |-> wanted.other,
             key |-> IF sent.key = NoKey THEN wanted.key ELSE sent.key]
      <4>1. Merged(wanted, sent) \in Config /\ wanted \in Config
        BY <1>1, Data
      <4>2. Merged(wanted, sent).other = wanted.other
        BY <4>1 DEF Merged, Config
      <4>3. Merged(wanted, sent).servers = sent.servers
        BY <4>1 DEF Merged, Config
      <4>4. Merged(wanted, sent).model = sent.model
        BY <4>1 DEF Merged, Config
      <4>5. Merged(wanted, sent).key = IF sent.key = NoKey THEN wanted.key ELSE sent.key
        BY <4>1 DEF Merged, Config
      <4>6. QED
        BY <4>1, <4>2, <4>3, <4>4, <4>5 DEF Config
    <3>3. QED
      BY <1>2, <3>1, <3>2
  <2>4. save'[p].phase = "open" /\ save'[p].config = wanted'
    BY <1>1, <1>2, <2>3 DEF TypeOK, Save
  <2>5. \A q \in Pages : q # p => ~Writing(q)'
    BY <1>2, <2>1 DEF Writing, TypeOK
  <2>6. Writing(p)'
    BY <2>4 DEF Writing
  <2>7. OneWriter' /\ WriterInv' /\ FileInv'
    BY <2>4, <2>5, <2>6 DEF OneWriter, WriterInv, FileInv, AtRest
  <2>8. MemoryInv'
    BY <1>1, <1>2, <2>2 DEF MemoryInv, Sent
  <2>9. QED
    BY <2>7, <2>8
<1>5. QED
  BY <1>3, <1>4 DEF SavedInv

LEMMA SavedOpen ==
    ASSUME TypeOK, SavedInv, NEW p \in Pages, OpenFile(p)
    PROVE  SavedInv'
<1>1. /\ save[p].phase = "open" /\ up /\ save[p] \in Save
      /\ save' = [save EXCEPT ![p].phase = "write"]
      /\ file' = Unreadable("empty") /\ UNCHANGED <<up, mem, wanted, harm>>
  BY DEF OpenFile, TypeOK, SavedInv, DownInv, history
<1>2. Writing(p) /\ \A q \in Pages : Writing(q)' <=> Writing(q)
  BY <1>1 DEF Writing, TypeOK
<1>3. save'[p].phase = "write" /\ save'[p].config = save[p].config
  BY <1>1 DEF TypeOK, Save
<1>4. DownInv'
  BY <1>1 DEF DownInv
<1>5. ASSUME Sound' PROVE (OneWriter /\ WriterInv /\ FileInv /\ MemoryInv)'
  <2>1. OneWriter /\ WriterInv /\ MemoryInv
    BY <1>1, <1>5 DEF Sound, SavedInv
  <2>2. OneWriter'
    BY <1>2, <2>1 DEF OneWriter
  <2>3. \A q \in Pages : Writing(q)' => q = p
    BY <1>2, <2>1 DEF OneWriter
  <2>4. WriterInv'
    BY <1>1, <1>2, <1>3, <2>1, <2>3 DEF WriterInv, Unreadable
  <2>5. FileInv' /\ MemoryInv'
    BY <1>1, <1>2, <2>1 DEF FileInv, AtRest, MemoryInv
  <2>6. QED
    BY <2>2, <2>4, <2>5
<1>6. QED
  BY <1>4, <1>5 DEF SavedInv

LEMMA SavedWrite ==
    ASSUME TypeOK, SavedInv, NEW p \in Pages, WriteFile(p)
    PROVE  SavedInv'
<1>1. /\ save[p].phase = "write" /\ up /\ save[p] \in Save
      /\ save' = [save EXCEPT ![p].phase = "saved"]
      /\ file' = Whole(save[p].config) \/ file.state # "empty"
      /\ UNCHANGED <<up, mem, wanted, harm>>
  BY DEF WriteFile, TypeOK, SavedInv, DownInv, history
<1>2. Writing(p) /\ ~Writing(p)' /\ \A q \in Pages : Writing(q)' => Writing(q)
  BY <1>1 DEF Writing, TypeOK
<1>3. DownInv'
  BY <1>1 DEF DownInv
<1>4. ASSUME Sound' PROVE (OneWriter /\ WriterInv /\ FileInv /\ MemoryInv)'
  <2>1. OneWriter /\ WriterInv /\ MemoryInv
    BY <1>1, <1>4 DEF Sound, SavedInv
  <2>2. file' = Whole(wanted)
    BY <1>1, <1>2, <2>1 DEF WriterInv
  <2>3. \A q \in Pages : ~Writing(q)'
    BY <1>2, <2>1 DEF OneWriter
  <2>4. QED
    BY <1>1, <2>1, <2>2, <2>3 DEF OneWriter, WriterInv, FileInv, MemoryInv
<1>5. QED
  BY <1>3, <1>4 DEF SavedInv

LEMMA SavedProcess ==
    ASSUME TypeOK, SavedInv, Crash \/ Start \/ \E p \in Pages : WriteFails(p)
    PROVE  SavedInv'
<1>1. CASE Crash
  <2>1. DownInv'
    <3>1. \A p \in Pages : save'[p].phase \in {"none", "failed"}
      BY <1>1 DEF Crash, NoSave, TypeOK, Save
    <3>2. QED
      BY <3>1 DEF DownInv
  <2>2. ASSUME Sound' PROVE (OneWriter /\ WriterInv /\ FileInv /\ MemoryInv)'
    <3>1. Sound /\ \A q \in Pages : ~Writing(q)
      BY <1>1, <2>2 DEF Crash, Adding, Sound
    <3>2. file' = Whole(wanted')
      BY <1>1, <3>1 DEF Crash, SavedInv, FileInv, AtRest
    <3>3. \A q \in Pages : ~Writing(q)'
      BY <1>1, <2>1 DEF Crash, DownInv, Writing
    <3>4. QED
      BY <1>1, <3>2, <3>3 DEF Crash, OneWriter, WriterInv, FileInv, MemoryInv
  <2>3. QED
    BY <2>1, <2>2 DEF SavedInv
<1>2. CASE Start
  <2>1. \A p \in Pages : ~Writing(p) /\ ~Writing(p)'
    BY <1>2 DEF Start, SavedInv, DownInv, Writing
  <2>2. DownInv' /\ UNCHANGED <<file, wanted, harm>>
    BY <1>2 DEF Start, DownInv, history
  <2>3. ASSUME Sound' PROVE (OneWriter /\ WriterInv /\ FileInv /\ MemoryInv)'
    <3>1. file = Whole(wanted)
      BY <2>1, <2>2, <2>3 DEF SavedInv, FileInv, AtRest, Sound
    <3>2. MemoryInv'
      BY <1>2, <2>2, <3>1 DEF Start, Whole, MemoryInv
    <3>3. QED
      BY <2>1, <2>2, <3>1, <3>2 DEF OneWriter, WriterInv, FileInv
  <2>4. QED
    BY <2>2, <2>3 DEF SavedInv
<1>3. ASSUME NEW p \in Pages, WriteFails(p) PROVE SavedInv'
  <2>1. "failed" \in harm'
    BY <1>3 DEF WriteFails, Adding
  <2>2. up /\ up' = up
    BY <1>3 DEF WriteFails, Writing, SavedInv, DownInv
  <2>3. QED
    BY <2>1, <2>2 DEF SavedInv, DownInv, Sound
<1>4. QED
  BY <1>1, <1>2, <1>3

LEMMA SavedStep == TypeOK /\ SavedInv /\ [Next]_vars => SavedInv'
<1> SUFFICES ASSUME TypeOK, SavedInv, [Next]_vars PROVE SavedInv'
  OBVIOUS
<1>1. ASSUME NEW p \in Pages, SaveAnswered(p) \/ \E f \in Edited(form[p]), k \in AnyKey :
                                                    SaveSettings(p, f, k)
      PROVE SavedInv'
  <2>1. UNCHANGED <<serverVars, wanted>> /\ harm \subseteq harm'
    BY <1>1 DEF SaveAnswered, SaveSettings, Adding
  <2>2. \A q \in Pages : \/ save'[q] = save[q]
                         \/ up /\ save[q].phase = "none" /\ save'[q].phase = "sent"
                         \/ save[q].phase \in {"saved", "failed"} /\ save'[q].phase = "none"
    <3>1. CASE SaveAnswered(p)
      BY <3>1 DEF SaveAnswered, TypeOK, NoSave
    <3>2. ASSUME NEW f \in Edited(form[p]), NEW k \in AnyKey, SaveSettings(p, f, k)
          PROVE up /\ save[p].phase = "none" /\ save'[p].phase = "sent"
                /\ \A q \in Pages \ {p} : save'[q] = save[q]
      BY <3>2 DEF SaveSettings, TypeOK, NoSave
    <3>3. QED
      BY <1>1, <3>1, <3>2
  <2>3. QED
    BY <2>1, <2>2, SavedElsewhere
<1>2. ASSUME NEW p \in Pages,
             \/ GetSettings(p) \/ LoadFails(p)
             \/ \E answer \in gets[p] : SettingsLoaded(p, answer)
             \/ \E model \in lists[p] :
                  ModelsFail(p, model) \/ \E has \in BOOLEAN : ModelsListed(p, model, has)
      PROVE SavedInv'
  <2>1. UNCHANGED <<serverVars, wanted, save>> /\ harm \subseteq harm'
    BY <1>2 DEF GetSettings, LoadFails, SettingsLoaded, ModelsFail, ModelsListed, Adding,
                counts, history
  <2>2. QED
    BY <2>1, SavedElsewhere
<1>3. CASE UNCHANGED vars
  <2>1. UNCHANGED <<serverVars, wanted, save>> /\ harm \subseteq harm'
    BY <1>3 DEF vars, history
  <2>2. QED
    BY <2>1, SavedElsewhere
<1>4. QED
  BY <1>1, <1>2, <1>3, SavedRead, SavedOpen, SavedWrite, SavedProcess DEF Next

\* handleSaveSettings keeps a saved key when it is sent a blank one and the keys it
\* does not know: unless saves overlapped or one failed, the file holds what the
\* saves made of it.
THEOREM SavedKept == Spec => []SavedSettingsKept
<1>1. SavedInv => SavedSettingsKept
  BY DEF SavedInv, FileInv, SavedSettingsKept, Sound
<1>2. QED
  BY TypeCorrect, SavedInit, SavedStep, <1>1, PTL DEF Spec

\* What handleSaveSettings keeps in s.apiKey is the key of the file, and what it keeps
\* in s.llmModel the model of a file that names one (server.go:865-907), unless saves
\* overlapped or one failed.
THEOREM MemoryKept == Spec => []MemoryAgrees
<1>1. SavedInv => MemoryAgrees
  BY DEF SavedInv, FileInv, MemoryInv, MemoryAgrees, Sound, Whole
<1>2. QED
  BY TypeCorrect, SavedInit, SavedStep, <1>1, PTL DEF Spec
-----------------------------------------------------------------------------
(* What the users entered stays.  A server list and a model are on their way   *)
(* from the file through a page and back: none of the places on it is without  *)
(* one, but for the answers that were about an unreadable file and the saves   *)
(* of a form that had no list of models.                                       *)

ServersOnTheWay ==
    /\ Readable => file.config.servers # NoServers
    /\ \A p \in Pages :
         /\ \A answer \in gets[p] : answer.servers # NoServers
         /\ form[p].servers # NoServers
         /\ save[p].phase \in {"sent", "open", "write"} => save[p].sent.servers # NoServers
         /\ Writing(p) => save[p].config.servers # NoServers

ModelOnTheWay ==
    /\ Readable => file.config.model # NoModel
    /\ \A p \in Pages :
         /\ \A answer \in gets[p] : answer.model # NoModel
         /\ NoModel \notin lists[p]
         /\ form[p].listed => form[p].model # NoModel
         /\ save[p].phase \in {"sent", "open", "write"} => save[p].sent.model # NoModel
         /\ Writing(p) => save[p].config.model # NoModel

ServersInv == "blind" \notin harm => ServersOnTheWay
ModelInv == "blank" \notin harm => ModelOnTheWay

LEMMA EnteredInit == Init => ServersInv /\ ModelInv
<1> SUFFICES ASSUME Init PROVE ServersInv /\ ModelInv
  OBVIOUS
<1>1. PICK c \in [servers : ServerLists, model : Models, key : AnyKey, other : {TRUE}] :
        file = Whole(c)
  BY DEF Init
<1>2. file.config.servers # NoServers /\ file.config.model # NoModel
  BY <1>1, SettingsAssumption DEF Whole
<1>3. \A p \in Pages : /\ gets[p] = {} /\ lists[p] = {} /\ save[p].phase = "none"
                       /\ form[p].servers # NoServers /\ ~form[p].listed
  BY SettingsAssumption DEF Init, NoSave
<1>4. QED
  BY <1>2, <1>3 DEF ServersInv, ModelInv, ServersOnTheWay, ModelOnTheWay, Writing
\* What a step of a save does to the file and to the saves.
LEMMA MergeStep ==
    ASSUME TypeOK, NEW p \in Pages, ReadAndMerge(p)
    PROVE  /\ save[p].phase = "sent" /\ UNCHANGED <<file, gets, lists, form>>
           /\ save'[p].sent = save[p].sent
           /\ save'[p].config.servers = save[p].sent.servers
           /\ save'[p].config.model = save[p].sent.model
           /\ \A q \in Pages \ {p} : save'[q] = save[q]
<1>1. save[p].phase = "sent" /\ save[p] \in Save /\ file.config \in Config
  BY DEF ReadAndMerge, TypeOK, File
<1>2. save' = [save EXCEPT ![p].phase = "open",
                           ![p].config = Merged(file.config, save[p].sent)]
      /\ UNCHANGED <<file, gets, lists, form>>
  BY DEF ReadAndMerge, formVars
<1>3. /\ save'[p].config = Merged(file.config, save[p].sent)
      /\ save'[p].sent = save[p].sent
      /\ \A q \in Pages \ {p} : save'[q] = save[q]
  BY <1>1, <1>2 DEF TypeOK, Save
<1>4. /\ Merged(file.config, save[p].sent).servers = save[p].sent.servers
      /\ Merged(file.config, save[p].sent).model = save[p].sent.model
  BY <1>1 DEF Merged, Config
<1>5. QED
  BY <1>1, <1>2, <1>3, <1>4

LEMMA WritingStep ==
    ASSUME TypeOK, NEW p \in Pages, OpenFile(p) \/ WriteFails(p) \/ WriteFile(p)
    PROVE  /\ Writing(p) /\ UNCHANGED <<gets, lists, form>>
           /\ file' = file \/ file' = Whole(save[p].config) \/ file'.state # "whole"
           /\ save'[p].config = save[p].config /\ save'[p].sent = save[p].sent
           /\ \A q \in Pages \ {p} : save'[q] = save[q]
<1>1. save[p] \in Save
  BY DEF TypeOK
<1>2. CASE OpenFile(p)
  <2>1. Writing(p) /\ UNCHANGED <<gets, lists, form>> /\ file'.state # "whole"
    BY <1>2 DEF OpenFile, Writing, formVars, Unreadable
  <2>2. save' = [save EXCEPT ![p].phase = "write"]
    BY <1>2 DEF OpenFile
  <2>3. QED
    BY <1>1, <2>1, <2>2 DEF TypeOK, Save
<1>3. CASE WriteFails(p)
  <2>1. Writing(p) /\ UNCHANGED <<gets, lists, form>> /\ (file' = file \/ file'.state # "whole")
    BY <1>3 DEF WriteFails, formVars, Unreadable
  <2>2. save' = [save EXCEPT ![p].phase = "failed"]
    BY <1>3 DEF WriteFails
  <2>3. QED
    BY <1>1, <2>1, <2>2 DEF TypeOK, Save
<1>4. CASE WriteFile(p)
  <2>1. /\ Writing(p) /\ UNCHANGED <<gets, lists, form>>
        /\ file' = Whole(save[p].config) \/ file'.state # "whole"
    BY <1>4 DEF WriteFile, Writing, formVars, Unreadable
  <2>2. save' = [save EXCEPT ![p].phase = "saved"]
    BY <1>4 DEF WriteFile
  <2>3. QED
    BY <1>1, <2>1, <2>2 DEF TypeOK, Save
<1>5. QED
  BY <1>2, <1>3, <1>4

\* Asking for the models and getting them leaves the server list of the form alone.
LEMMA AskStep ==
    ASSUME TypeOK, NEW p \in Pages, NEW f \in Form, NEW model, AskForModels(p, f, model)
    PROVE  /\ form'[p].servers = f.servers /\ ~form'[p].listed
           /\ \A q \in Pages \ {p} : form'[q] = form[q] /\ lists'[q] = lists[q]
           /\ lists'[p] = lists[p] \cup {model}
<1>1. form' = [form EXCEPT ![p] = [f EXCEPT !.model = NoModel, !.listed = FALSE]]
      /\ lists' = [lists EXCEPT ![p] = @ \cup {model}]
  BY DEF AskForModels
<1>2. [f EXCEPT !.model = NoModel, !.listed = FALSE].servers = f.servers
      /\ ~[f EXCEPT !.model = NoModel, !.listed = FALSE].listed
  BY DEF Form
<1>3. QED
  BY <1>1, <1>2 DEF TypeOK

LEMMA ListStep ==
    ASSUME TypeOK, NEW p \in Pages, NEW model \in lists[p],
           ModelsFail(p, model) \/ \E has \in BOOLEAN : ModelsListed(p, model, has)
    PROVE  /\ form'[p].servers = form[p].servers
           /\ form'[p].listed => form'[p].model = model
           /\ \A q \in Pages \ {p} : form'[q] = form[q]
           /\ \A q \in Pages : lists'[q] \subseteq lists[q]
           /\ UNCHANGED <<file, gets, save>>
<1>1. form[p] \in Form
  BY DEF TypeOK
<1>2. UNCHANGED <<file, gets, save>> /\ \A q \in Pages : lists'[q] \subseteq lists[q]
  BY DEF ModelsFail, ModelsListed, serverVars, TypeOK
<1>3. CASE ModelsFail(p, model)
  <2>1. form' = [form EXCEPT ![p].model = NoModel, ![p].listed = FALSE]
    BY <1>3 DEF ModelsFail
  <2>2. QED
    BY <1>1, <1>2, <2>1 DEF TypeOK, Form
<1>4. CASE \E has \in BOOLEAN : ModelsListed(p, model, has)
  <2>1. form' = [form EXCEPT ![p] = [form[p] EXCEPT !.model = model, !.listed = TRUE]]
    BY <1>4 DEF ModelsListed, Select
  <2>2. QED
    BY <1>1, <1>2, <2>1 DEF TypeOK, Form
<1>5. QED
  BY <1>3, <1>4

LEMMA AnsweredStep ==
    ASSUME TypeOK, NEW p \in Pages, SaveAnswered(p)
    PROVE  /\ UNCHANGED <<file, gets>>
           /\ save'[p].phase = "none" /\ \A q \in Pages \ {p} : save'[q] = save[q]
           /\ \/ AskForModels(p, form[p], form[p].model) /\ (~form[p].listed => "blank" \in harm')
              \/ UNCHANGED <<form, lists>>
<1>1. UNCHANGED <<file, gets>>
  BY DEF SaveAnswered, serverVars
<1>2. save'[p].phase = "none" /\ \A q \in Pages \ {p} : save'[q] = save[q]
  BY DEF SaveAnswered, TypeOK, NoSave
<1>3. \/ AskForModels(p, form[p], form[p].model) /\ (~form[p].listed => "blank" \in harm')
      \/ UNCHANGED <<form, lists>>
  BY DEF SaveAnswered, Adding
<1>4. QED
  BY <1>1, <1>2, <1>3

LEMMA SentStep ==
    ASSUME TypeOK, NEW p \in Pages, NEW f, NEW k \in AnyKey, SaveSettings(p, f, k)
    PROVE  /\ form' = [form EXCEPT ![p] = f] /\ UNCHANGED <<file, gets, lists>>
           /\ save'[p].phase = "sent" /\ save'[p].sent.servers = f.servers
           /\ save'[p].sent.model = f.model
           /\ \A q \in Pages \ {p} : save'[q] = save[q]
<1>1. save' = [save EXCEPT ![p] = [NoSave EXCEPT !.phase = "sent",
           !.sent = [servers |-> f.servers, model |-> f.model, key |-> k]]]
      /\ form' = [form EXCEPT ![p] = f] /\ UNCHANGED <<file, gets, lists>>
  BY DEF SaveSettings, serverVars
<1>2. QED
  BY <1>1 DEF TypeOK, NoSave

LEMMA LoadedStep ==
    ASSUME TypeOK, NEW p \in Pages, NEW answer \in gets[p], SettingsLoaded(p, answer)
    PROVE  /\ form'[p].servers = answer.servers /\ ~form'[p].listed
           /\ \A q \in Pages \ {p} : form'[q] = form[q]
           /\ \A q \in Pages : gets'[q] \subseteq gets[q]
           /\ \A q \in Pages : lists'[q] \subseteq lists[q] \cup {answer.model}
           /\ UNCHANGED <<file, save>>
<1> DEFINE f == [form[p] EXCEPT !.servers = answer.servers]
<1>1. form[p] \in Form /\ answer \in Answer
  BY DEF TypeOK
<1>2. f \in Form /\ f.servers = answer.servers
  BY <1>1 DEF Form, Answer
<1>3. UNCHANGED <<file, save>> /\ \A q \in Pages : gets'[q] \subseteq gets[q]
  BY DEF SettingsLoaded, serverVars, TypeOK
<1>4. CASE answer.keySet
  <2>1. AskForModels(p, f, answer.model)
    BY <1>4 DEF SettingsLoaded
  <2> HIDE DEF f
  <2>2. QED
    BY <1>2, <1>3, <2>1, AskStep
<1>5. CASE ~answer.keySet
  <2>1. form' = [form EXCEPT ![p] = [f EXCEPT !.model = NoModel, !.listed = FALSE]]
        /\ lists' = lists
    BY <1>5 DEF SettingsLoaded
  <2> HIDE DEF f
  <2>2. QED
    BY <1>2, <1>3, <2>1 DEF TypeOK, Form
<1>6. QED
  BY <1>4, <1>5

LEMMA GetStep ==
    ASSUME TypeOK, NEW p \in Pages, GetSettings(p)
    PROVE  /\ Readable \/ "blind" \in harm'
           /\ UNCHANGED <<file, save, form, lists>>
           /\ \A q \in Pages : \A answer \in gets'[q] :
                \/ answer \in gets[q]
                \/ answer.servers = file.config.servers /\ answer.model # NoModel
<1> DEFINE a == [servers |-> file.config.servers,
                 model |-> IF file.config.model = NoModel THEN mem.model
                           ELSE file.config.model,
                 keySet |-> mem.key # NoKey]
<1>1. a.servers = file.config.servers /\ a.model # NoModel
  BY SettingsAssumption DEF TypeOK
<1>2. gets' = [gets EXCEPT ![p] = @ \cup {a}]
  BY DEF GetSettings
<1>3. \A q \in Pages : gets'[q] \subseteq gets[q] \cup {a}
  BY <1>2 DEF TypeOK
<1>4. (Readable \/ "blind" \in harm') /\ UNCHANGED <<file, save, form, lists>>
  BY DEF GetSettings, Adding, serverVars
<1>5. QED
  BY <1>1, <1>3, <1>4

LEMMA ServersStep == TypeOK /\ ServersInv /\ [Next]_vars => ServersInv'
<1> SUFFICES ASSUME TypeOK, ServersInv, [Next]_vars, "blind" \notin harm'
             PROVE  ServersOnTheWay'
  BY DEF ServersInv
<1>1. harm \subseteq harm'
  BY DEF Next, GetSettings, SettingsLoaded, LoadFails, ModelsListed, ModelsFail, SaveSettings,
         ReadAndMerge, OpenFile, WriteFile, WriteFails, SaveAnswered, AskForModels, Adding,
         Crash, Start, vars, history, counts
<1>2. ServersOnTheWay
  BY <1>1 DEF ServersInv
<1>3. ASSUME NEW p \in Pages, GetSettings(p) PROVE ServersOnTheWay'
  BY <1>2, <1>3, GetStep DEF ServersOnTheWay, Readable, Writing
<1>4. ASSUME NEW p \in Pages, LoadFails(p) PROVE ServersOnTheWay'
  <2>1. form' = [form EXCEPT ![p].servers = NoForm] /\ UNCHANGED <<file, gets, lists, save>>
    BY <1>4 DEF LoadFails, serverVars
  <2>2. form[p] \in Form
    BY DEF TypeOK
  <2>3. /\ form'[p].servers = NoForm /\ form'[p].model = form[p].model
        /\ form'[p].listed = form[p].listed
        /\ \A q \in Pages \ {p} : form'[q] = form[q]
    BY <2>1, <2>2 DEF TypeOK, Form
  <2>4. QED
    BY <1>2, <2>1, <2>3, SettingsAssumption DEF ServersOnTheWay, Readable, Writing
<1>5. ASSUME NEW p \in Pages, NEW answer \in gets[p], SettingsLoaded(p, answer)
      PROVE ServersOnTheWay'
  BY <1>2, <1>5, LoadedStep DEF ServersOnTheWay, Readable, Writing
<1>6. ASSUME NEW p \in Pages, NEW model \in lists[p],
             ModelsFail(p, model) \/ \E has \in BOOLEAN : ModelsListed(p, model, has)
      PROVE ServersOnTheWay'
  BY <1>2, <1>6, ListStep DEF ServersOnTheWay, Readable, Writing
<1>7. ASSUME NEW p \in Pages, NEW f \in Edited(form[p]), NEW k \in AnyKey, SaveSettings(p, f, k)
      PROVE ServersOnTheWay'
  <2>1. f.servers # NoServers
    BY <1>2, SettingsAssumption DEF Edited, ServersOnTheWay
  <2>2. \A q \in Pages : form'[q] = IF q = p THEN f ELSE form[q]
    BY <1>7, SentStep DEF TypeOK
  <2>3. QED
    BY <1>2, <1>7, <2>1, <2>2, SentStep DEF ServersOnTheWay, Readable, Writing
<1>8. ASSUME NEW p \in Pages, ReadAndMerge(p) PROVE ServersOnTheWay'
  BY <1>2, <1>8, MergeStep DEF ServersOnTheWay, Readable, Writing
<1>9. ASSUME NEW p \in Pages, OpenFile(p) \/ WriteFails(p) \/ WriteFile(p)
      PROVE ServersOnTheWay'
  BY <1>2, <1>9, WritingStep DEF ServersOnTheWay, Readable, Writing, Whole
<1>10. ASSUME NEW p \in Pages, SaveAnswered(p) PROVE ServersOnTheWay'
  <2>1. form[p] \in Form
    BY DEF TypeOK
  <2>2. \/ AskForModels(p, form[p], form[p].model) /\ (~form[p].listed => "blank" \in harm')
        \/ UNCHANGED <<form, lists>>
    BY <1>10, AnsweredStep
  <2>3. CASE AskForModels(p, form[p], form[p].model) /\ (~form[p].listed => "blank" \in harm')
    BY <1>2, <1>10, <2>1, <2>3, AnsweredStep, AskStep DEF ServersOnTheWay, Readable, Writing
  <2>4. CASE UNCHANGED <<form, lists>>
    BY <1>2, <1>10, <2>4, AnsweredStep DEF ServersOnTheWay, Readable, Writing
  <2>5. QED
    BY <2>2, <2>3, <2>4
<1>11. CASE Crash
  <2>1. \A p \in Pages : save'[p].phase \in {"none", "failed"}
    BY <1>11 DEF Crash, NoSave, TypeOK, Save
  <2>2. QED
    BY <1>2, <1>11, <2>1 DEF Crash, ServersOnTheWay, Readable, Writing, formVars
<1>12. CASE Start \/ UNCHANGED vars
  BY <1>2, <1>12 DEF Start, ServersOnTheWay, Readable, Writing, formVars, vars, serverVars
<1>13. QED
  BY <1>3, <1>4, <1>5, <1>6, <1>7, <1>8, <1>9, <1>10, <1>11, <1>12 DEF Next

LEMMA ModelStep == TypeOK /\ ModelInv /\ [Next]_vars => ModelInv'
<1> SUFFICES ASSUME TypeOK, ModelInv, [Next]_vars, "blank" \notin harm'
             PROVE  ModelOnTheWay'
  BY DEF ModelInv
<1>1. harm \subseteq harm'
  BY DEF Next, GetSettings, SettingsLoaded, LoadFails, ModelsListed, ModelsFail, SaveSettings,
         ReadAndMerge, OpenFile, WriteFile, WriteFails, SaveAnswered, AskForModels, Adding,
         Crash, Start, vars, history, counts
<1>2. ModelOnTheWay
  BY <1>1 DEF ModelInv
<1>3. ASSUME NEW p \in Pages, GetSettings(p) PROVE ModelOnTheWay'
  BY <1>2, <1>3, GetStep DEF ModelOnTheWay, Readable, Writing
<1>4. ASSUME NEW p \in Pages, LoadFails(p) PROVE ModelOnTheWay'
  <2>1. form' = [form EXCEPT ![p].servers = NoForm] /\ UNCHANGED <<file, gets, lists, save>>
    BY <1>4 DEF LoadFails, serverVars
  <2>2. form[p] \in Form
    BY DEF TypeOK
  <2>3. /\ form'[p].servers = NoForm /\ form'[p].model = form[p].model
        /\ form'[p].listed = form[p].listed
        /\ \A q \in Pages \ {p} : form'[q] = form[q]
    BY <2>1, <2>2 DEF TypeOK, Form
  <2>4. QED
    BY <1>2, <2>1, <2>3, SettingsAssumption DEF ModelOnTheWay, Readable, Writing
<1>5. ASSUME NEW p \in Pages, NEW answer \in gets[p], SettingsLoaded(p, answer)
      PROVE ModelOnTheWay'
  BY <1>2, <1>5, LoadedStep DEF ModelOnTheWay, Readable, Writing
<1>6. ASSUME NEW p \in Pages, NEW model \in lists[p],
             ModelsFail(p, model) \/ \E has \in BOOLEAN : ModelsListed(p, model, has)
      PROVE ModelOnTheWay'
  BY <1>2, <1>6, ListStep DEF ModelOnTheWay, Readable, Writing
<1>7. ASSUME NEW p \in Pages, NEW f \in Edited(form[p]), NEW k \in AnyKey, SaveSettings(p, f, k)
      PROVE ModelOnTheWay'
  <2>1. f.listed /\ f.model # NoModel
    <3>1. f.listed
      BY <1>7 DEF SaveSettings, Adding
    <3>2. QED
      BY <1>2, <3>1, SettingsAssumption DEF Edited, ModelOnTheWay
  <2>2. \A q \in Pages : form'[q] = IF q = p THEN f ELSE form[q]
    BY <1>7, SentStep DEF TypeOK
  <2>3. QED
    BY <1>2, <1>7, <2>1, <2>2, SentStep DEF ModelOnTheWay, Readable, Writing
<1>8. ASSUME NEW p \in Pages, ReadAndMerge(p) PROVE ModelOnTheWay'
  BY <1>2, <1>8, MergeStep DEF ModelOnTheWay, Readable, Writing
<1>9. ASSUME NEW p \in Pages, OpenFile(p) \/ WriteFails(p) \/ WriteFile(p)
      PROVE ModelOnTheWay'
  BY <1>2, <1>9, WritingStep DEF ModelOnTheWay, Readable, Writing, Whole
<1>10. ASSUME NEW p \in Pages, SaveAnswered(p) PROVE ModelOnTheWay'
  <2>1. form[p] \in Form
    BY DEF TypeOK
  <2>2. \/ AskForModels(p, form[p], form[p].model) /\ (~form[p].listed => "blank" \in harm')
        \/ UNCHANGED <<form, lists>>
    BY <1>10, AnsweredStep
  <2>3. CASE AskForModels(p, form[p], form[p].model) /\ (~form[p].listed => "blank" \in harm')
    BY <1>2, <1>10, <2>1, <2>3, AnsweredStep, AskStep DEF ModelOnTheWay, Readable, Writing
  <2>4. CASE UNCHANGED <<form, lists>>
    BY <1>2, <1>10, <2>4, AnsweredStep DEF ModelOnTheWay, Readable, Writing
  <2>5. QED
    BY <2>2, <2>3, <2>4
<1>11. CASE Crash
  <2>1. \A p \in Pages : save'[p].phase \in {"none", "failed"}
    BY <1>11 DEF Crash, NoSave, TypeOK, Save
  <2>2. QED
    BY <1>2, <1>11, <2>1 DEF Crash, ModelOnTheWay, Readable, Writing, formVars
<1>12. CASE Start \/ UNCHANGED vars
  BY <1>2, <1>12 DEF Start, ModelOnTheWay, Readable, Writing, formVars, vars, serverVars
<1>13. QED
  BY <1>3, <1>4, <1>5, <1>6, <1>7, <1>8, <1>9, <1>10, <1>11, <1>12 DEF Next

\* No save and no restart loses the server list that a user entered, unless a page was
\* told the defaults of a file that was being written.
THEOREM ServersStay == Spec => []ServersKept
<1>1. ServersInv => ServersKept
  BY DEF ServersInv, ServersOnTheWay, ServersKept
<1>2. QED
  BY TypeCorrect, EnteredInit, ServersStep, <1>1, PTL DEF Spec

\* No save and no restart loses the model, unless a page saved, or asked for the models
\* again, while its select had none to choose from.
THEOREM ModelStays == Spec => []ModelKept
<1>1. ModelInv => ModelKept
  BY DEF ModelInv, ModelOnTheWay, ModelKept
<1>2. QED
  BY TypeCorrect, EnteredInit, ModelStep, <1>1, PTL DEF Spec
===============================================================================
