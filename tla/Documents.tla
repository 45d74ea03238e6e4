----------------------------- MODULE Documents -----------------------------
(***************************************************************************)
(* The three documents Redis keeps whole under one key each: the sound pad *)
(* of a room, the broadcast schedules and the top spenders.                *)
(*                                                                         *)
(* Every change reads the document, changes one entry and writes it back.  *)
(* After the schedules are written the scheduler reads them again and      *)
(* replaces its cron table; after the top spenders are written they are    *)
(* read again, merged by name and announced.  Other requests run between   *)
(* the calls.  The server may die at any time, and puts default schedules  *)
(* where it finds none when it starts.                                     *)
(***************************************************************************)
EXTENDS Integers, Sequences, FiniteSetsExt, Lists

CONSTANTS
    Editors,        \* connections or admin requests, one goroutine each
    Slots, Sounds,  \* of the sound pad
    Empty,          \* a slot without a sound
    PlaysSize,      \* maxSoundPadHistory
    Defaults,       \* the ids of the default schedules
    Schedule,       \* schedules without their id: enabled; valid, when cron.AddFunc accepts
                    \* the expression, which the admin stores as it comes
    Spender,        \* top spenders without their id: who it is, whatever the case of the
                    \* name and the spaces around it; how it is spelled, 0 for an empty
                    \* name; amount; date, 0 for an empty one
    MaxEntries,     \* bound: ids given to new schedules and spenders
    MaxDocFaults,   \* bound: Redis errors
    DocSettings     \* see docSetting

ASSUME DocumentsAssumption ==
    /\ Empty \notin Sounds
    /\ MaxEntries \in Nat /\ MaxDocFaults \in Nat /\ PlaysSize \in Nat \ {0}
    /\ Schedule \subseteq [enabled : BOOLEAN, valid : BOOLEAN]
    /\ [enabled |-> TRUE, valid |-> TRUE] \in Schedule
    /\ Spender \subseteq [who : {of.who : of \in Spender}, spelled : Nat, amount : Int, date : Nat]
    /\ Defaults # {} /\ Defaults \cap (1..MaxEntries) = {}

VARIABLES
    docSetting,     \* inFlight: requests between two calls at one time; entries: how many
                    \* are made; traffic: the document asked for, "fault" and "crash"
    pad,            \* the sound pad in Redis
    plays,          \* its history of plays, newest first
    schedules,      \* the schedules in Redis
    cronTable,      \* the schedules the scheduler's cron plays
    spenders,       \* the top spenders in Redis
    announced,      \* the last top_spenders_updated
    editJob,        \* what every goroutine is doing
    serverUp,
    entries,        \* ids given so far
    docFaults       \* Redis errors so far

docs == <<pad, plays, schedules, spenders>>
docVars == <<docSetting, docs, cronTable, announced, editJob, serverUp, entries, docFaults>>

EntryID == 1..MaxEntries
ScheduleID == EntryID \cup Defaults

\* at: the call to come; op, key, value: the change; read: the document it is made to.
EditIdle == [at |-> "idle", op |-> "none", key |-> 0, value |-> Empty, read |-> <<>>]

NoSchedules == [id \in {} |-> Empty]

DocumentsTypeOK ==
    /\ pad \in [Slots -> Sounds \cup {Empty}]
    /\ plays \in Seq(Slots \X Sounds) /\ Len(plays) <= PlaysSize
    /\ DOMAIN schedules \subseteq ScheduleID
    /\ \A id \in DOMAIN schedules : schedules[id] \in Schedule
    /\ cronTable \subseteq ScheduleID
    /\ \A i \in DOMAIN spenders : spenders[i].id \in EntryID /\ spenders[i].of \in Spender
    /\ \A i, j \in DOMAIN spenders : spenders[i].id = spenders[j].id => i = j
    /\ entries \in 0..MaxEntries
    /\ docFaults \in 0..MaxDocFaults
    /\ ~serverUp => cronTable = {} /\ \A e \in Editors : editJob[e] = EditIdle

DocumentsInit ==
    /\ docSetting \in DocSettings
    /\ pad = [s \in Slots |-> Empty]
    /\ plays = <<>>
    /\ schedules = NoSchedules
    /\ cronTable = {}
    /\ spenders = <<>> /\ announced = <<>>
    /\ editJob = [e \in Editors |-> EditIdle]
    /\ serverUp = FALSE
    /\ entries = 0 /\ docFaults = 0

-----------------------------------------------------------------------------

Editing == {e \in Editors : editJob[e] # EditIdle}

\* A request for a document.
Asks(e, doc) ==
    /\ serverUp
    /\ doc \in docSetting.traffic
    /\ editJob[e] = EditIdle
    /\ Cardinality(Editing) < docSetting.inFlight

EditGoto(e, j) == editJob' = [editJob EXCEPT ![e] = j]
EditAt(e, point) == editJob[e].at = point
DocFault ==
    "fault" \in docSetting.traffic /\ docFaults < MaxDocFaults /\ docFaults' = docFaults + 1

Then(point, op, key, value, read) ==
    [at |-> point, op |-> op, key |-> key, value |-> value, read |-> read]

-----------------------------------------------------------------------------
(* The sound pad.                                                          *)

\* HandleSoundPadSet, up to SetSoundPad.
SoundPadSet(e) ==
    /\ Asks(e, "pad")
    /\ \E slot \in Slots, sound \in Sounds :
         EditGoto(e, Then("writePad", "set", slot, sound, pad))
    /\ UNCHANGED <<docSetting, docs, cronTable, announced, serverUp, entries, docFaults>>

\* HandleSoundPadClear, up to SetSoundPad.
SoundPadClear(e) ==
    /\ Asks(e, "pad")
    /\ \E slot \in Slots : EditGoto(e, Then("writePad", "clear", slot, Empty, pad))
    /\ UNCHANGED <<docSetting, docs, cronTable, announced, serverUp, entries, docFaults>>

\* SetSoundPad.
WritePad(e) ==
    /\ EditAt(e, "writePad")
    /\ pad' = [editJob[e].read EXCEPT ![editJob[e].key] = editJob[e].value]
    /\ EditGoto(e, EditIdle)
    /\ UNCHANGED <<docSetting, plays, schedules, spenders, cronTable, announced, serverUp,
                   entries, docFaults>>

\* HandleSoundPadPlay: a slot with a sound, ...
SoundPadPlay(e) ==
    /\ Asks(e, "pad")
    /\ \E slot \in Slots :
         pad[slot] # Empty /\ EditGoto(e, Then("pushPlay", "play", slot, pad[slot], <<>>))
    /\ UNCHANGED <<docSetting, docs, cronTable, announced, serverUp, entries, docFaults>>

\* ... and PushSoundPadPlay.
PushSoundPadPlay(e) ==
    /\ EditAt(e, "pushPlay")
    /\ plays' = SubSeq(<<<<editJob[e].key, editJob[e].value>>>> \o plays, 1,
                       Min({PlaysSize, Len(plays) + 1}))
    /\ EditGoto(e, EditIdle)
    /\ UNCHANGED <<docSetting, pad, schedules, spenders, cronTable, announced, serverUp,
                   entries, docFaults>>

-----------------------------------------------------------------------------
(* The schedules.                                                          *)

\* GetSchedules or GetTopSpenders of a request, whose error is ignored.
Read(document, nothing, read) ==
    \/ read = document /\ UNCHANGED docFaults
    \/ read = nothing /\ DocFault

\* POST: a new schedule, enabled.
PostSchedule(e) ==
    /\ Asks(e, "schedules")
    /\ entries < MaxEntries /\ entries < docSetting.entries
    /\ entries' = entries + 1
    /\ \E body \in Schedule, read \in {schedules, NoSchedules} :
         /\ body.enabled
         /\ Read(schedules, NoSchedules, read)
         /\ EditGoto(e, Then("writeSchedules", "post", entries', body, read))
    /\ UNCHANGED <<docSetting, docs, cronTable, announced, serverUp>>

\* PUT: 404 for an id that is not there.
PutSchedule(e) ==
    /\ Asks(e, "schedules")
    /\ \E id \in DOMAIN schedules, body \in Schedule :
         EditGoto(e, Then("writeSchedules", "put", id, body, schedules))
    /\ UNCHANGED <<docSetting, docs, cronTable, announced, serverUp, entries, docFaults>>

\* DELETE writes the list even when the id is not in it, or no list was read.
DeleteSchedule(e) ==
    /\ Asks(e, "schedules")
    /\ \E id \in ScheduleID, read \in {schedules, NoSchedules} :
         /\ Read(schedules, NoSchedules, read)
         /\ EditGoto(e, Then("writeSchedules", "delete", id, Empty, read))
    /\ UNCHANGED <<docSetting, docs, cronTable, announced, serverUp, entries>>

\* SetSchedules; then Scheduler.reload.
WriteSchedules(e) ==
    /\ EditAt(e, "writeSchedules")
    /\ LET j == editJob[e]
           kept == DOMAIN j.read \ {j.key}
           ids == IF j.op = "delete" THEN kept ELSE kept \cup {j.key}
       IN  schedules' = [id \in ids |-> IF id = j.key THEN j.value ELSE j.read[id]]
    /\ EditGoto(e, [EditIdle EXCEPT !.at = "reread"])
    /\ UNCHANGED <<docSetting, pad, plays, spenders, cronTable, announced, serverUp, entries,
                   docFaults>>

\* What reload puts into cron: the enabled schedules.  One that AddFunc refuses is
\* logged and skipped.
Planned(list) == {id \in DOMAIN list : list[id].enabled /\ list[id].valid}

\* reload reads the schedules before it takes the mutex; when it cannot, it leaves cron alone.
RereadSchedules(e) ==
    /\ EditAt(e, "reread")
    /\ \/ EditGoto(e, Then("install", "none", 0, Empty, schedules)) /\ UNCHANGED docFaults
       \/ DocFault /\ EditGoto(e, EditIdle)
    /\ UNCHANGED <<docSetting, docs, cronTable, announced, serverUp, entries>>

\* A variant with a mistake: what the old table plays is played on.
InstallCron_KeepsOld(e) ==
    /\ EditAt(e, "install")
    /\ cronTable' = cronTable \cup Planned(editJob[e].read)
    /\ EditGoto(e, EditIdle)
    /\ UNCHANGED <<docSetting, docs, announced, serverUp, entries, docFaults>>

\* reload, under the mutex: a new cron.
InstallCron(e) ==
    /\ EditAt(e, "install")
    /\ cronTable' = Planned(editJob[e].read)
    /\ EditGoto(e, EditIdle)
    /\ UNCHANGED <<docSetting, docs, announced, serverUp, entries, docFaults>>

-----------------------------------------------------------------------------
(* The top spenders.                                                       *)

\* POST: a new spender with a name, an amount and a date.
PostSpender(e) ==
    /\ Asks(e, "spenders")
    /\ entries < MaxEntries /\ entries < docSetting.entries
    /\ entries' = entries + 1
    /\ \E body \in Spender, read \in {spenders, <<>>} :
         /\ body.spelled # 0 /\ body.amount > 0 /\ body.date # 0
         /\ Read(spenders, <<>>, read)
         /\ EditGoto(e, Then("writeSpenders", "post", entries', body, read))
    /\ UNCHANGED <<docSetting, docs, cronTable, announced, serverUp>>

\* PUT: 404 for an id that is not there; anything goes for the rest.
PutSpender(e) ==
    /\ Asks(e, "spenders")
    /\ \E i \in DOMAIN spenders, body \in Spender :
         EditGoto(e, Then("writeSpenders", "put", spenders[i].id, body, spenders))
    /\ UNCHANGED <<docSetting, docs, cronTable, announced, serverUp, entries, docFaults>>

\* DELETE writes the list in any case.
DeleteSpender(e) ==
    /\ Asks(e, "spenders")
    /\ \E id \in EntryID, read \in {spenders, <<>>} :
         /\ Read(spenders, <<>>, read)
         /\ EditGoto(e, Then("writeSpenders", "delete", id, Empty, read))
    /\ UNCHANGED <<docSetting, docs, cronTable, announced, serverUp, entries>>

\* SetTopSpenders.
WriteSpenders(e) ==
    /\ EditAt(e, "writeSpenders")
    /\ LET j == editJob[e]
       IN  spenders' =
             CASE j.op = "post" -> Append(j.read, [id |-> j.key, of |-> j.value])
               [] j.op = "put" -> [i \in DOMAIN j.read |->
                                     IF j.read[i].id = j.key THEN [j.read[i] EXCEPT !.of = j.value]
                                     ELSE j.read[i]]
               [] j.op = "delete" -> At(j.read, {i \in DOMAIN j.read : j.read[i].id # j.key})
    /\ EditGoto(e, [EditIdle EXCEPT !.at = "announce"])
    /\ UNCHANGED <<docSetting, pad, plays, schedules, cronTable, announced, serverUp, entries,
                   docFaults>>

\* The amounts at these places of a list, added up.
Amount(list, places) ==
    LET upTo[i \in 0..Len(list)] ==
          IF i = 0 THEN 0 ELSE upTo[i - 1] + (IF i \in places THEN list[i].of.amount ELSE 0)
    IN  upTo[Len(list)]

\* One entry for the entries that are the same, where the first of them is, with their
\* amounts and the last of their dates.
Merged(list, same) ==
    At([i \in DOMAIN list |->
          [list[i] EXCEPT !.of.amount = Amount(list, same[i]),
                          !.of.date = Max({list[j].of.date : j \in same[i]})]],
       {i \in DOMAIN list : \A j \in same[i] : i <= j})

\* A variant with a mistake: names spelled differently are different.
MergeTopSpenders_AsSpelled(list) ==
    Merged(list, [i \in DOMAIN list |->
                    {j \in DOMAIN list : /\ list[j].of.who = list[i].of.who
                                         /\ list[j].of.spelled = list[i].of.spelled}])

\* mergeTopSpenders: the entries of one name are the same.
MergeTopSpenders(list) ==
    Merged(list, [i \in DOMAIN list |-> {j \in DOMAIN list : list[j].of.who = list[i].of.who}])

\* broadcastTopSpenders reads the list again; when it cannot, nothing is announced.
AnnounceSpenders(e) ==
    /\ EditAt(e, "announce")
    /\ \/ announced' = MergeTopSpenders(spenders) /\ UNCHANGED docFaults
       \/ DocFault /\ UNCHANGED announced
    /\ EditGoto(e, EditIdle)
    /\ UNCHANGED <<docSetting, docs, cronTable, serverUp, entries>>

-----------------------------------------------------------------------------
(* Failure, crash and start.                                               *)

\* A write that fails ends its request.
WriteFails(e) ==
    /\ editJob[e].at \in {"writePad", "pushPlay", "writeSchedules", "writeSpenders"}
    /\ DocFault
    /\ EditGoto(e, EditIdle)
    /\ UNCHANGED <<docSetting, docs, cronTable, announced, serverUp, entries>>

CrashServer ==
    /\ serverUp /\ "crash" \in docSetting.traffic
    /\ serverUp' = FALSE
    /\ cronTable' = {}
    /\ editJob' = [e \in Editors |-> EditIdle]
    /\ UNCHANGED <<docSetting, docs, announced, entries, docFaults>>

DefaultSchedules == [id \in Defaults |-> [enabled |-> TRUE, valid |-> TRUE]]

\* A variant with a mistake: the defaults are put into Redis at every start.
StartServer_AlwaysDefaults ==
    /\ ~serverUp
    /\ serverUp' = TRUE
    /\ schedules' = DefaultSchedules
    /\ cronTable' = Planned(schedules')
    /\ UNCHANGED <<docSetting, pad, plays, spenders, announced, editJob, entries, docFaults>>

\* Start, before the server takes requests.  migrateDefaults stores the defaults where it
\* finds no schedules, unless Redis fails its read or its write; reload makes the table,
\* unless Redis fails its read.  Errors at one start count as one.
StartServer ==
    /\ ~serverUp
    /\ serverUp' = TRUE
    /\ \E migrates, reloads \in BOOLEAN :
         /\ IF migrates /\ reloads THEN UNCHANGED docFaults ELSE DocFault
         /\ schedules' = IF migrates /\ DOMAIN schedules = {} THEN DefaultSchedules ELSE schedules
         /\ cronTable' = IF reloads THEN Planned(schedules') ELSE {}
    /\ UNCHANGED <<docSetting, pad, plays, spenders, announced, editJob, entries>>

DocumentsNext ==
    \/ \E e \in Editors :
         \/ SoundPadSet(e) \/ SoundPadClear(e) \/ WritePad(e)
         \/ SoundPadPlay(e) \/ PushSoundPadPlay(e)
         \/ PostSchedule(e) \/ PutSchedule(e) \/ DeleteSchedule(e) \/ WriteSchedules(e)
         \/ RereadSchedules(e) \/ InstallCron(e)
         \/ PostSpender(e) \/ PutSpender(e) \/ DeleteSpender(e) \/ WriteSpenders(e)
         \/ AnnounceSpenders(e) \/ WriteFails(e)
    \/ CrashServer
    \/ StartServer

DocumentsSpec == DocumentsInit /\ [][DocumentsNext]_docVars

-----------------------------------------------------------------------------

\* The entries of a document.
PadEntries(slots) == {<<s, slots[s]>> : s \in DOMAIN slots}
ScheduleEntries(list) == {<<id, list[id]>> : id \in DOMAIN list}
SpenderEntries(list) == {<<list[i].id, list[i].of>> : i \in DOMAIN list}
DifferInOne(before, after) ==
    Cardinality({entry[1] : entry \in (before \ after) \cup (after \ before)}) <= 1

\* Goroutine e writes what it made of a document that has changed since: of several requests
\* between two calls.
Overwrites(e, point, document) ==
    /\ docSetting.inFlight # 1
    /\ EditAt(e, point) /\ editJob[e].read # document /\ editJob' # editJob

\* A request changes its own entry and keeps all others, and a start keeps the schedules
\* there are: an entry is lost only to a request that read the document before another
\* one wrote it, or when Redis failed a read.
OthersAreKept ==
    [][docFaults = 0 =>
         /\ \/ DifferInOne(PadEntries(pad), PadEntries(pad'))
            \/ \E e \in Editors : Overwrites(e, "writePad", pad)
         /\ \/ DifferInOne(ScheduleEntries(schedules), ScheduleEntries(schedules'))
            \/ DOMAIN schedules = {}
            \/ \E e \in Editors : Overwrites(e, "writeSchedules", schedules)
         /\ \/ DifferInOne(SpenderEntries(spenders), SpenderEntries(spenders'))
            \/ \E e \in Editors : Overwrites(e, "writeSpenders", spenders)]_docVars

Quiet == docSetting.inFlight = 1 /\ Editing = {} /\ docFaults = 0

\* Cron plays the schedules that are stored, enabled and have an expression cron accepts,
\* those and no others, also after a crash between the write and the reload.  An enabled
\* schedule with an expression cron refuses is stored, shown as enabled and never played.
CronMatchesSchedules == serverUp /\ Quiet => cronTable = Planned(schedules)

\* What was announced last is the stored amounts, each name once.
TotalsAnnounced ==
    Quiet =>
      /\ \A i, j \in DOMAIN announced : announced[i].of.who = announced[j].of.who => i = j
      /\ Amount(announced, DOMAIN announced) = Amount(spenders, DOMAIN spenders)
      /\ \A i \in DOMAIN spenders :
           \E j \in DOMAIN announced : /\ announced[j].of.who = spenders[i].of.who
                                       /\ announced[j].of.date >= spenders[i].of.date
=============================================================================
