------------------------------- MODULE Settings -------------------------------
(***************************************************************************)
(* The settings tab of the web UI over handleSettings (internal/ui/        *)
(* server.go): pages show the configuration file, their users edit it and  *)
(* have it saved.  The handler reads the file, merges what a page sent and *)
(* writes the whole file back, without a lock; the file may be read, and   *)
(* the process may end, at any step between.                               *)
(*                                                                         *)
(* Of the file, the model keeps the server list (mcpServers), the LLM      *)
(* model, the API key and whether keys the handler does not know are there.*)
(* The other settings travel with the server list.                         *)
(***************************************************************************)
EXTENDS Naturals, FiniteSets

CONSTANTS
    Pages,
    ServerLists,   \* what users enter for mcpServers
    NoServers,     \* the empty list, {}, which no user enters
    NoForm,        \* the text of a form that shows no settings; not JSON
    Models,        \* LLM models, of which users choose one
    NoModel,       \* the blank option of the select
    DefaultModel,  \* the model of a configuration without one
    Keys,
    NoKey,
    MaxInFlight,   \* bound on the answers under way to a page, of each kind
    MaxLoads,      \* bound on the requests for the settings
    MaxSaves,      \* bound on the requests to save
    MaxCrashes     \* bound on the ends of the process

ASSUME SettingsAssumption ==
    /\ NoServers \notin ServerLists
    /\ NoForm \notin ServerLists \cup {NoServers}
    /\ NoModel \notin Models /\ DefaultModel \in Models /\ NoKey \notin Keys
    /\ MaxInFlight \in Nat \ {0} /\ MaxLoads \in Nat /\ MaxSaves \in Nat /\ MaxCrashes \in Nat

VARIABLES
    file,      \* the configuration file
    up,        \* the process is running
    mem,       \* s.llmModel and s.apiKey
    form,      \* mcpServers and model of each page's form, and whether it has a list
               \* of models to choose from
    gets,      \* answers of GET /api/settings under way to a page
    lists,     \* requests for the models, each with the one it is to select
    save,      \* POST /api/settings of each page, whose button it disables
    loads, saves, crashes,
    wanted,    \* history: the file as the saves so far should have left it
    harm       \* history: what happened that the handlers are no match for

serverVars == <<file, up, mem>>
formVars == <<form, gets, lists>>
counts == <<loads, saves, crashes>>
history == <<wanted, harm>>
vars == <<serverVars, formVars, save, counts, history>>

AnyServers == ServerLists \cup {NoServers}
AnyModel == Models \cup {NoModel}
AnyKey == Keys \cup {NoKey}
Config == [servers : AnyServers, model : AnyModel, key : AnyKey, other : BOOLEAN]
\* What json.Unmarshal leaves of a file it cannot read.
NoConfig == [servers |-> NoServers, model |-> NoModel, key |-> NoKey, other |-> FALSE]

\* An unreadable file is one that is truncated or holds parts of two writes.
File == [state : {"whole", "empty", "garbled"}, config : Config]
Whole(c) == [state |-> "whole", config |-> c]
Unreadable(s) == [state |-> s, config |-> NoConfig]
Readable == file.state = "whole"

Form == [servers : AnyServers \cup {NoForm}, model : AnyModel, listed : BOOLEAN]
Sent == [servers : AnyServers, model : AnyModel, key : AnyKey]
NoSent == [servers |-> NoServers, model |-> NoModel, key |-> NoKey]
Answer == [servers : AnyServers, model : AnyModel, keySet : BOOLEAN]
Save == [phase : {"none", "sent", "open", "write", "saved", "failed"}, sent : Sent,
         config : Config]
NoSave == [phase |-> "none", sent |-> NoSent, config |-> NoConfig]
\* overlap  a save read the file while another was about to write it
\* failed   a write failed, or the process ended in one
\* blind    a page was told the defaults for an unreadable file
\* blank    a page took the blank option of a missing list of models for the model
Harm == {"overlap", "failed", "blind", "blank"}

TypeOK ==
    /\ file \in File
    /\ up \in BOOLEAN
    /\ mem \in [model : Models, key : AnyKey]
    /\ form \in [Pages -> Form]
    /\ gets \in [Pages -> SUBSET Answer]
    /\ lists \in [Pages -> SUBSET AnyModel]
    /\ save \in [Pages -> Save]
    /\ loads \in 0..MaxLoads /\ saves \in 0..MaxSaves /\ crashes \in 0..MaxCrashes
    /\ wanted \in Config
    /\ harm \subseteq Harm

Writing(p) == save[p].phase \in {"open", "write"}
Adding(h, cond) == harm' = IF cond THEN harm \cup {h} ELSE harm

\* main takes model and key from the file (no flag or environment variable sets them).
Init ==
    /\ file \in {Whole(c) : c \in [servers : ServerLists, model : Models, key : AnyKey,
                                   other : {TRUE}]}
    /\ up = TRUE
    /\ mem = [model |-> file.config.model, key |-> file.config.key]
    /\ form = [p \in Pages |-> [servers |-> NoForm, model |-> NoModel, listed |-> FALSE]]
    /\ gets = [p \in Pages |-> {}]
    /\ lists = [p \in Pages |-> {}]
    /\ save = [p \in Pages |-> NoSave]
    /\ loads = 0 /\ saves = 0 /\ crashes = 0
    /\ wanted = file.config
    /\ harm = {}

-----------------------------------------------------------------------------
(* The page loads the settings.                                             *)

\* handleGetSettings.  A file that is not readable is answered with the defaults.
GetSettings(p) ==
    /\ up
    /\ Cardinality(gets[p]) < MaxInFlight /\ loads < MaxLoads
    /\ loads' = loads + 1
    /\ gets' = [gets EXCEPT ![p] = @ \cup
          {[servers |-> file.config.servers,
            model |-> IF file.config.model = NoModel THEN mem.model ELSE file.config.model,
            keySet |-> mem.key # NoKey]}]
    /\ Adding("blind", ~Readable)
    /\ UNCHANGED <<serverVars, form, lists, save, saves, crashes, wanted>>

\* loadModelList: the select shows the blank option until the list is there.
AskForModels(p, f, model) ==
    /\ Cardinality(lists[p]) < MaxInFlight
    /\ form' = [form EXCEPT ![p] = [f EXCEPT !.model = NoModel, !.listed = FALSE]]
    /\ lists' = [lists EXCEPT ![p] = @ \cup {model}]

\* loadSettings: the answer replaces what the form holds, edited or not.  Without
\* an API key the blank option stays.
SettingsLoaded(p, answer) ==
    /\ answer \in gets[p]
    /\ gets' = [gets EXCEPT ![p] = @ \ {answer}]
    /\ LET f == [form[p] EXCEPT !.servers = answer.servers]
       IN  IF answer.keySet
           THEN AskForModels(p, f, answer.model)
           ELSE /\ form' = [form EXCEPT ![p] = [f EXCEPT !.model = NoModel,
                                                                 !.listed = FALSE]]
                /\ UNCHANGED lists
    /\ UNCHANGED <<serverVars, save, counts, history>>

\* Variant: a request that fails leaves an empty list in the form.
LoadFailsEmptying(p) ==
    /\ loads < MaxLoads /\ loads' = loads + 1
    /\ form' = [form EXCEPT ![p].servers = NoServers]
    /\ UNCHANGED <<serverVars, gets, lists, save, saves, crashes, history>>

\* A request that fails leaves its error in the form.
LoadFails(p) ==
    /\ loads < MaxLoads /\ loads' = loads + 1
    /\ form' = [form EXCEPT ![p].servers = NoForm]
    /\ UNCHANGED <<serverVars, gets, lists, save, saves, crashes, history>>

\* Variant: the current model is selected only if the list has it.
SelectListed(f, model, has) == [f EXCEPT !.model = IF has THEN model ELSE NoModel, !.listed = TRUE]

\* The current model is selected; one that the list does not have is added to it.
Select(f, model, has) == [f EXCEPT !.model = model, !.listed = TRUE]

\* The list arrives.
ModelsListed(p, model, has) ==
    /\ model \in lists[p]
    /\ lists' = [lists EXCEPT ![p] = @ \ {model}]
    /\ form' = [form EXCEPT ![p] = Select(@, model, has)]
    /\ UNCHANGED <<serverVars, gets, save, counts, history>>

\* Without one, as when handleModels answers with an error text that is not JSON,
\* the blank option stays.
ModelsFail(p, model) ==
    /\ model \in lists[p]
    /\ lists' = [lists EXCEPT ![p] = @ \ {model}]
    /\ form' = [form EXCEPT ![p].model = NoModel, ![p].listed = FALSE]
    /\ UNCHANGED <<serverVars, gets, save, counts, history>>

-----------------------------------------------------------------------------
(* The user edits the form and saves it.                                    *)

\* What a user makes of a form whose answers have come: a server list, a model of
\* those there are to choose from, or neither.
Edited(f) ==
    [servers : {f.servers} \cup ServerLists,
     model : {f.model} \cup (IF f.listed THEN Models ELSE {}),
     listed : {f.listed}]

\* saveSettings sends the form with the key that is typed, if any, once its server
\* list is JSON.
SaveSettings(p, f, k) ==
    /\ up
    /\ save[p].phase = "none"
    /\ f.servers # NoForm
    /\ saves < MaxSaves
    /\ saves' = saves + 1
    /\ form' = [form EXCEPT ![p] = f]
    /\ save' = [save EXCEPT ![p] = [NoSave EXCEPT !.phase = "sent",
                     !.sent = [servers |-> f.servers, model |-> f.model, key |-> k]]]
    /\ Adding("blank", ~f.listed)
    /\ UNCHANGED <<serverVars, gets, lists, loads, crashes, wanted>>

\* Variant: a blank key is stored like any other.
MergedBlankKey(old, sent) ==
    [old EXCEPT !.servers = sent.servers, !.model = sent.model, !.key = sent.key]

\* What a save makes of a configuration: a blank key keeps the old one, a blank
\* model deletes it.
Merged(old, sent) ==
    [old EXCEPT !.servers = sent.servers, !.model = sent.model,
                !.key = IF sent.key = NoKey THEN @ ELSE sent.key]

\* Variant: the key in memory is the one of the start.
RememberModelOnly(sent) ==
    mem' = [mem EXCEPT !.model = IF sent.model = NoModel THEN @ ELSE sent.model]

Remember(sent) ==
    mem' = [model |-> IF sent.model = NoModel THEN mem.model ELSE sent.model,
            key |-> IF sent.key = NoKey THEN mem.key ELSE sent.key]

\* handleSaveSettings reads the file, an unreadable one as an empty one, and
\* merges what it was sent into it and into its own variables.
ReadAndMerge(p) ==
    LET sent == save[p].sent
    IN  /\ save[p].phase = "sent"
        /\ save' = [save EXCEPT ![p].phase = "open", ![p].config = Merged(file.config, sent)]
        /\ Remember(sent)
        /\ wanted' = [servers |-> sent.servers, model |-> sent.model, other |-> wanted.other,
                      key |-> IF sent.key = NoKey THEN wanted.key ELSE sent.key]
        /\ Adding("overlap", \E q \in Pages : Writing(q))
        /\ UNCHANGED <<file, up, formVars, counts>>

\* os.WriteFile truncates the file ...
OpenFile(p) ==
    /\ save[p].phase = "open"
    /\ save' = [save EXCEPT ![p].phase = "write"]
    /\ file' = Unreadable("empty")
    /\ UNCHANGED <<up, mem, formVars, counts, history>>

\* ... and writes it.  Over another save's longer text, its tail stays behind.
WriteFile(p) ==
    /\ save[p].phase = "write"
    /\ save' = [save EXCEPT ![p].phase = "saved"]
    /\ \/ file' = Whole(save[p].config)
       \/ /\ file.state # "empty" /\ file # Whole(save[p].config)
          /\ file' = Unreadable("garbled")
    /\ UNCHANGED <<up, mem, formVars, counts, history>>

\* The file cannot be opened, or is left with a part of the text.
WriteFails(p) ==
    /\ Writing(p)
    /\ save' = [save EXCEPT ![p].phase = "failed"]
    /\ IF save[p].phase = "open" THEN UNCHANGED file ELSE file' = Unreadable("garbled")
    /\ Adding("failed", TRUE)
    /\ UNCHANGED <<up, mem, formVars, counts, wanted>>

\* The answer.  After a save with a key, the page asks for the models again, to
\* select the one that is selected now.
SaveAnswered(p) ==
    /\ save[p].phase \in {"saved", "failed"}
    /\ save' = [save EXCEPT ![p] = NoSave]
    /\ IF save[p].phase = "saved" /\ save[p].sent.key # NoKey
       THEN /\ AskForModels(p, form[p], form[p].model)
            /\ Adding("blank", ~form[p].listed)
       ELSE UNCHANGED <<form, lists, harm>>
    /\ UNCHANGED <<serverVars, gets, counts, wanted>>

-----------------------------------------------------------------------------
\* The process ends; what it had under way fails on the pages.
Crash ==
    /\ up
    /\ crashes < MaxCrashes
    /\ crashes' = crashes + 1
    /\ up' = FALSE
    /\ save' = [p \in Pages |-> IF save[p].phase = "none" THEN NoSave
                                ELSE [save[p] EXCEPT !.phase = "failed"]]
    /\ Adding("failed", \E p \in Pages : Writing(p))
    /\ UNCHANGED <<file, mem, formVars, loads, saves, wanted>>

\* It starts again only on a file it can read.
Start ==
    /\ ~up
    /\ Readable
    /\ up' = TRUE
    /\ mem' = [model |-> IF file.config.model = NoModel THEN DefaultModel
                         ELSE file.config.model,
               key |-> file.config.key]
    /\ UNCHANGED <<file, formVars, save, counts, history>>

Next ==
    \/ Crash \/ Start
    \/ \E p \in Pages :
         \/ GetSettings(p) \/ LoadFails(p)
         \/ \E answer \in gets[p] : SettingsLoaded(p, answer)
         \/ \E model \in lists[p] :
              ModelsFail(p, model) \/ \E has \in BOOLEAN : ModelsListed(p, model, has)
         \/ \E f \in Edited(form[p]), k \in AnyKey : SaveSettings(p, f, k)
         \/ ReadAndMerge(p) \/ OpenFile(p) \/ WriteFile(p) \/ WriteFails(p)
         \/ SaveAnswered(p)

Spec == Init /\ [][Next]_vars

-----------------------------------------------------------------------------
AtRest == \A p \in Pages : ~Writing(p)

\* "never overwrite with blank", "so we preserve any unknown keys" (server.go:856,
\* 894): with no save going on, the file holds the last server list and model, the
\* last API key that was not blank and the keys nobody knows, whatever the pages
\* showed when they sent them, unless saves overlapped or one failed.
SavedSettingsKept ==
    AtRest /\ harm \cap {"overlap", "failed"} = {} => file = Whole(wanted)

\* What handleSaveSettings keeps in memory for the next reads agrees with the file
\* (lines 865-874): s.apiKey is its key, and s.llmModel its model when it names one.
\* A file without a model is left out: the server keeps the model it had, while a start
\* would take the default.  So is the analyzer, which keeps the model and the key it
\* was created with (main.go:114).
MemoryAgrees ==
    AtRest /\ up /\ harm \cap {"overlap", "failed"} = {} =>
        /\ mem.key = file.config.key
        /\ file.config.model \in {NoModel, mem.model}

\* The server list, which no user empties, is lost only through a page that was
\* told the defaults of an unreadable file.
ServersKept == Readable /\ "blind" \notin harm => file.config.servers # NoServers

\* The model, which no user deletes, is lost only through a page that saved, or
\* asked for the models again, while it had no list of them.
ModelKept == Readable /\ "blank" \notin harm => file.config.model # NoModel
===============================================================================
