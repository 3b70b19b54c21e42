------------------------------ MODULE ChatTurn ------------------------------
(***************************************************************************)
(* One conversation: turns of ChatService.send_message and its streaming   *)
(* twin, each with a session of its own, the tools a turn calls, the audit *)
(* records and the memories they leave, and beside them the calls that     *)
(* rename or delete the conversation and review memories. An action is one *)
(* transaction, one statement of the deletion, or one answer of the model. *)
(* The database refuses rows that refer to a missing row. ReviewProofs     *)
(* extends this module beside DedupApproval, hence the prefix of the usual *)
(* names.                                                                  *)
(***************************************************************************)
EXTENDS Integers, Sequences, SequencesExt, FiniteSets

CONSTANTS
    Turns,              \* 1..n, begun in this order
    MaxToolIterations,  \* MAX_TOOL_ITERATIONS
    MaxCalls,           \* bound: tool calls of one reply of the model
    Null,
    Settings

MaxHistoryMessages == 20
TitleRefreshInterval == 3

ASSUME TurnsAssumption == IsFiniteSet(Turns) /\ Turns = 1..Cardinality(Turns)
ASSUME LimitsAssumption == {MaxToolIterations, MaxCalls} \subseteq Nat

\* Nothing goes wrong in a calm conversation, and nobody interferes with it.
ASSUME SettingsAssumption ==
    \A s \in Settings :
        /\ {s.before, s.reviews} \subseteq Nat
        /\ s.calm => s.faults = {} /\ ~s.overlap /\ ~s.deletes /\ s.reviews = 0

VARIABLES
    setting,
    conv,       \* the conversation: state, title
    messages,   \* rows of messages, in order of creation: [turn, role]
    tools,      \* rows of tool_calls: id -> message, or Null
    memories,   \* rows of memories: id -> [status, linked, message]
    turn,       \* what each turn is at and holds
    deletion,   \* the deletion under way, not committed
    callsLeft   \* bound: calls about memories and titles

chatVars == <<setting, conv, messages, tools, memories, turn, deletion, callsLeft>>
chatRows == <<conv, messages, tools, memories>>

Over == {"done", "failed"}
Steps == {"idle", "create", "user", "retrieve", "model", "tool", "record", "finish",
          "linkTools", "linkMemories", "touch", "title", "retitle"} \cup Over

Statuses == {"PENDING", "APPROVED", "REJECTED"}

\* call counts the tool calls of a turn; left are those of the last reply.
NewTurn == [step |-> "idle", iteration |-> 0, call |-> 0, left |-> 0, aborted |-> FALSE,
            records |-> {}, proposed |-> {}, count |-> 0]

NoDeletion == [step |-> "idle", memories |-> {}, tools |-> {}, messages |-> 0]

Ids == Turns \X (1..(MaxToolIterations * MaxCalls))
Question(t) == [turn |-> t, role |-> "user"]
Answer(t) == [turn |-> t, role |-> "assistant"]

With(table, id, value) == [i \in {id} \cup DOMAIN table |-> IF i = id THEN value ELSE table[i]]
-----------------------------------------------------------------------------
\* The title after so many messages: of the first exchange, or of the last that is a
\* multiple of the interval.
TitleAt(count) ==
    [by |-> "model", of |-> IF count < 2 * TitleRefreshInterval THEN 2
                            ELSE count - (count % (2 * TitleRefreshInterval))]

\* The history is cut before it is counted.
Cut(count) == IF count > MaxHistoryMessages THEN MaxHistoryMessages ELSE count
History == Cut(Len(messages))

\* A conversation starts with the turns of the model or after earlier exchanges,
\* all of which count as turn 0.

ChatInit ==
    /\ setting \in Settings
    /\ conv = IF setting.before = 0 THEN [state |-> "none", title |-> Null]
              ELSE [state |-> "live", title |-> TitleAt(Cut(2 * setting.before))]
    /\ messages = [i \in 1..(2 * setting.before) |-> IF i % 2 = 1 THEN Question(0) ELSE Answer(0)]
    /\ tools = << >>
    /\ memories = << >>
    /\ turn = [t \in Turns |-> NewTurn]
    /\ deletion = NoDeletion
    /\ callsLeft = setting.reviews

Live == conv.state = "live"
Stored(m) == m \in ToSet(messages)
At(t, step) == turn[t].step = step
IsOver(t) == turn[t].step \in Over
Goto(t, step) == turn' = [turn EXCEPT ![t].step = step]
OthersStay == UNCHANGED <<setting, deletion, callsLeft>>
RowsStay == UNCHANGED chatRows

May(fault) == fault \in setting.faults
-----------------------------------------------------------------------------
\* The turn.

\* Who starts a conversation names none; later turns name it.
BeginTurn(t) ==
    /\ At(t, "idle") /\ t <= setting.turns
    /\ \A u \in Turns : u < t => IF setting.overlap THEN ~At(u, "idle") ELSE IsOver(u)
    /\ t = 1 \/ conv.state # "none"
    /\ Goto(t, CASE conv.state = "none" -> "create" [] Live -> "user" [] OTHER -> "failed")
    /\ RowsStay /\ OthersStay

CreateConversation(t) ==
    /\ At(t, "create")
    /\ conv' = [state |-> "live", title |-> Null]
    /\ Goto(t, "user")
    /\ UNCHANGED <<messages, tools, memories>> /\ OthersStay

StoreQuestion(t) ==
    /\ At(t, "user")
    /\ IF Live THEN messages' = Append(messages, Question(t)) /\ Goto(t, "retrieve")
               ELSE messages' = messages /\ Goto(t, "failed")
    /\ UNCHANGED <<conv, tools, memories>> /\ OthersStay

\* Reads alone; without the embedding model the turn ends here.
Retrieve(t) ==
    /\ At(t, "retrieve")
    /\ Goto(t, "model") \/ (May("model") /\ Goto(t, "failed"))
    /\ RowsStay /\ OthersStay

\* The model answers, asks for tools or is unavailable; the reader of a stream
\* may leave.
Replies(t) ==
    /\ At(t, "model") /\ turn[t].iteration < MaxToolIterations
    /\ Goto(t, "finish")
    /\ RowsStay /\ OthersStay

\* Mutant: a loop that ends only when the model does.
AsksWithoutLimit(t) ==
    /\ At(t, "model")
    /\ \E k \in 1..MaxCalls :
        turn' = [turn EXCEPT ![t].step = "tool", ![t].left = k, ![t].call = 0]
    /\ RowsStay /\ OthersStay

Asks(t) ==
    /\ At(t, "model") /\ turn[t].iteration < MaxToolIterations
    /\ t \in setting.tooled
    /\ \E k \in 1..MaxCalls :
        turn' = [turn EXCEPT ![t].step = "tool", ![t].iteration = @ + 1, ![t].left = k]
    /\ RowsStay /\ OthersStay

Exhausted(t) ==
    /\ At(t, "model") /\ turn[t].iteration = MaxToolIterations
    /\ Goto(t, "finish")
    /\ RowsStay /\ OthersStay

Unanswered(t) ==
    /\ At(t, "model") /\ turn[t].iteration < MaxToolIterations
    /\ May("model")
    /\ Goto(t, "failed")
    /\ RowsStay /\ OthersStay

Leave(t) ==
    /\ turn[t].step \in {"model", "tool"} /\ May("leave")
    /\ Goto(t, "failed")
    /\ RowsStay /\ OthersStay

\* What a tool raises is its result; an error of the database leaves the
\* transaction of the session aborted.
Breaks == {FALSE} \cup (IF May("query") THEN {TRUE} ELSE {})

\* A tool that reads.
RunTool(t) ==
    /\ At(t, "tool")
    /\ \E broken \in Breaks :
        turn' = [turn EXCEPT ![t].step = "record", ![t].call = @ + 1, ![t].aborted = broken]
    /\ RowsStay /\ OthersStay

\* The tool that proposes a memory commits it at once.
Remember(t) ==
    /\ At(t, "tool") /\ t \in setting.remembering
    /\ LET id == <<t, turn[t].call + 1>> IN
        IF Live
        THEN /\ memories' = With(memories, id, [status |-> "PENDING", linked |-> TRUE, message |-> Null])
             /\ turn' = [turn EXCEPT ![t].step = "record", ![t].call = @ + 1, ![t].proposed = @ \cup {id}]
        ELSE /\ memories' = memories
             /\ turn' = [turn EXCEPT ![t].step = "record", ![t].call = @ + 1]
    /\ UNCHANGED <<conv, messages, tools>> /\ OthersStay

\* The audit record of a call, or a rollback and no record.
Record(t) ==
    /\ At(t, "record")
    /\ LET id == <<t, turn[t].call>>
           next == IF turn[t].left = 1 THEN "model" ELSE "tool"
       IN  \/ /\ Live /\ ~turn[t].aborted
              /\ tools' = With(tools, id, Null)
              /\ turn' = [turn EXCEPT ![t].step = next, ![t].left = @ - 1, ![t].records = @ \cup {id}]
           \/ /\ ~Live \/ turn[t].aborted \/ May("insert")
              /\ tools' = tools
              /\ turn' = [turn EXCEPT ![t].step = next, ![t].left = @ - 1, ![t].aborted = FALSE]
    /\ UNCHANGED <<conv, messages, memories>> /\ OthersStay

StoreAnswer(t) ==
    /\ At(t, "finish")
    /\ \/ /\ Live
          /\ messages' = Append(messages, Answer(t))
          /\ Goto(t, "linkTools")
       \/ /\ ~Live \/ May("insert")
          /\ messages' = messages
          /\ Goto(t, "failed")
    /\ UNCHANGED <<conv, tools, memories>> /\ OthersStay

\* Rows that the deletion has changed or deleted are locked until it ends.
Locked(m) == deletion.step # "idle" /\ m \in deletion.memories
AnswerLocked(t) == deletion.step = "row" /\ \E i \in 1..deletion.messages : messages[i] = Answer(t)
ToolsLocked(t) == \E id \in turn[t].records : id \in deletion.tools \/ AnswerLocked(t)

\* Mutant: the answer is linked to every call that has no message yet.
LinkUnlinkedTools(t) ==
    /\ At(t, "linkTools") /\ ~ToolsLocked(t)
    /\ Goto(t, "linkMemories")
    /\ tools' = [id \in DOMAIN tools |-> IF tools[id] = Null THEN Answer(t) ELSE tools[id]]
    /\ UNCHANGED <<conv, messages, memories>> /\ OthersStay

\* Whatever goes wrong here is logged and forgotten.
LinkTools(t) ==
    /\ At(t, "linkTools") /\ ~ToolsLocked(t)
    /\ Goto(t, "linkMemories")
    /\ \/ tools' = [id \in DOMAIN tools |-> IF id \in turn[t].records THEN Answer(t) ELSE tools[id]]
       \/ May("insert") /\ tools' = tools
    /\ UNCHANGED <<conv, messages, memories>> /\ OthersStay

\* Mutant: the whole row is written as it was proposed.
RewriteMemories(t) ==
    /\ At(t, "linkMemories")
    /\ \A m \in turn[t].proposed : ~Locked(m) /\ ~AnswerLocked(t)
    /\ Goto(t, "touch")
    /\ memories' = [m \in DOMAIN memories |->
                        IF m \in turn[t].proposed /\ Stored(Answer(t))
                        THEN [memories[m] EXCEPT !.message = Answer(t), !.status = "PENDING"] ELSE memories[m]]
    /\ UNCHANGED <<conv, messages, tools>> /\ OthersStay

LinkMemories(t) ==
    /\ At(t, "linkMemories")
    /\ \A m \in turn[t].proposed : ~Locked(m) /\ ~AnswerLocked(t)
    /\ Goto(t, "touch")
    /\ \/ memories' = [m \in DOMAIN memories |->
                        IF m \in turn[t].proposed /\ Stored(Answer(t))
                        THEN [memories[m] EXCEPT !.message = Answer(t)] ELSE memories[m]]
       \/ May("insert") /\ memories' = memories
    /\ UNCHANGED <<conv, messages, tools>> /\ OthersStay

\* updated_at of a conversation that is gone: the update matches no row.
TouchConversation(t) ==
    /\ At(t, "touch")
    /\ Goto(t, IF Live THEN "title" ELSE "failed")
    /\ RowsStay /\ OthersStay

\* Mutant: no title after the first exchange.
IsLaterRefreshPoint(count) == count > 0 /\ count % (2 * TitleRefreshInterval) = 0
IsRefreshPoint(count) == count = 2 \/ (count > 0 /\ count % (2 * TitleRefreshInterval) = 0)

CountMessages(t) ==
    /\ At(t, "title")
    /\ turn' = [turn EXCEPT ![t].count = History, ![t].step = IF IsRefreshPoint(History) THEN "retitle" ELSE "done"]
    /\ RowsStay /\ OthersStay

\* The model makes a title, an empty one or none.
Retitle(t) ==
    /\ At(t, "retitle")
    /\ \/ /\ Live
          /\ conv' = [conv EXCEPT !.title = [by |-> "model", of |-> turn[t].count]]
          /\ Goto(t, "done")
       \/ ~Live /\ conv' = conv /\ Goto(t, "failed")
       \/ May("model") /\ conv' = conv /\ Goto(t, "done")
    /\ UNCHANGED <<messages, tools, memories>> /\ OthersStay

Turn(t) ==
    \/ BeginTurn(t) \/ CreateConversation(t) \/ StoreQuestion(t) \/ Retrieve(t)
    \/ Replies(t) \/ Asks(t) \/ Exhausted(t) \/ Unanswered(t) \/ Leave(t)
    \/ RunTool(t) \/ Remember(t) \/ Record(t)
    \/ StoreAnswer(t) \/ LinkTools(t) \/ LinkMemories(t) \/ TouchConversation(t)
    \/ CountMessages(t) \/ Retitle(t)
-----------------------------------------------------------------------------
\* The deletion: one transaction of four statements, each of which sees what
\* others have committed by then and hides what it does.

Delete(step) == deletion' = [deletion EXCEPT !.step = step]
TurnsStay == UNCHANGED <<setting, turn, callsLeft>>

BeginDeletion ==
    /\ setting.deletes /\ Live /\ deletion.step = "idle"
    /\ Delete("memories")
    /\ RowsStay /\ TurnsStay

DetachMemories ==
    /\ deletion.step = "memories"
    /\ deletion' = [deletion EXCEPT !.step = "tools", !.memories = {m \in DOMAIN memories : memories[m].linked}]
    /\ RowsStay /\ TurnsStay

DeleteTools ==
    /\ deletion.step = "tools"
    /\ deletion' = [deletion EXCEPT !.step = "messages", !.tools = DOMAIN tools]
    /\ RowsStay /\ TurnsStay

\* Mutant: the message stays linked.
Unlinked(memory) == [memory EXCEPT !.linked = FALSE]
\* What is left of a memory that the conversation's deletion detached.
Detached(memory) == [memory EXCEPT !.linked = FALSE, !.message = Null]

\* A message that a memory or a record still refers to cannot be deleted.
Referred ==
    \/ \E m \in DOMAIN memories :
        memories[m].message # Null /\ (m \in deletion.memories => Detached(memories[m]).message # Null)
    \/ \E id \in DOMAIN tools \ deletion.tools : tools[id] # Null

DeleteMessages ==
    /\ deletion.step = "messages"
    /\ IF Referred THEN deletion' = NoDeletion
                   ELSE deletion' = [deletion EXCEPT !.step = "row", !.messages = Len(messages)]
    /\ RowsStay /\ TurnsStay

\* The row goes only if nothing was added meanwhile.
DeleteRow ==
    /\ deletion.step = "row"
    /\ deletion' = NoDeletion
    /\ IF \/ Len(messages) > deletion.messages \/ ~(DOMAIN tools \subseteq deletion.tools)
          \/ \E m \in DOMAIN memories \ deletion.memories : memories[m].linked
       THEN RowsStay
       ELSE /\ conv' = [state |-> "gone", title |-> Null]
            /\ messages' = << >>
            /\ tools' = << >>
            /\ memories' = [m \in DOMAIN memories |->
                                IF m \in deletion.memories THEN Detached(memories[m]) ELSE memories[m]]
    /\ TurnsStay

Deletion == BeginDeletion \/ DetachMemories \/ DeleteTools \/ DeleteMessages \/ DeleteRow
-----------------------------------------------------------------------------
\* Calls about memories and the title.

Call == callsLeft > 0 /\ callsLeft' = callsLeft - 1 /\ UNCHANGED <<setting, turn, deletion>>

Review(m) ==
    /\ Call
    /\ m \in DOMAIN memories /\ ~Locked(m)
    /\ \E verdict \in {"APPROVED", "REJECTED"} : memories' = [memories EXCEPT ![m].status = verdict]
    /\ UNCHANGED <<conv, messages, tools>>

Forget(m) ==
    /\ Call
    /\ m \in DOMAIN memories /\ ~Locked(m)
    /\ memories' = [n \in DOMAIN memories \ {m} |-> memories[n]]
    /\ UNCHANGED <<conv, messages, tools>>

\* A memory written by hand may name a message, with its conversation or alone.
Write ==
    /\ Call
    /\ Live /\ messages # << >> /\ deletion.step # "row"
    /\ \E linked \in {TRUE} \cup (IF May("lone message") THEN {FALSE} ELSE {}) :
        memories' = With(memories, <<0, callsLeft>>,
                         [status |-> "APPROVED", linked |-> linked, message |-> Head(messages)])
    /\ UNCHANGED <<conv, messages, tools>>

Rename ==
    /\ Call
    /\ Live
    /\ conv' = [conv EXCEPT !.title = [by |-> "user", of |-> 0]]
    /\ UNCHANGED <<messages, tools, memories>>

Reviewer == (\E m \in DOMAIN memories : Review(m) \/ Forget(m)) \/ Write \/ Rename

ChatNext == (\E t \in Turns : Turn(t)) \/ Deletion \/ Reviewer
ChatSpec == ChatInit /\ [][ChatNext]_chatVars

\* The server works on the turns until they end; who wants the conversation gone
\* tries again.
FairSpec == ChatSpec /\ WF_chatVars(Deletion) /\ WF_chatVars(\E t \in Turns : Turn(t))
-----------------------------------------------------------------------------
MemoryIds == Ids \cup ({0} \X (1..setting.reviews))
Messages == [turn : Turns \cup {0}, role : {"user", "assistant"}]

ChatTypeOK ==
    /\ conv.state \in {"none", "live", "gone"}
    /\ conv.title # Null => conv.title \in [by : {"model", "user"}, of : 0..MaxHistoryMessages]
    /\ messages \in Seq(Messages)
    /\ DOMAIN tools \subseteq Ids /\ \A id \in DOMAIN tools : tools[id] \in Messages \cup {Null}
    /\ DOMAIN memories \subseteq MemoryIds
    /\ \A m \in DOMAIN memories :
        memories[m] \in [status : Statuses, linked : BOOLEAN, message : Messages \cup {Null}]
    /\ \A t \in Turns :
        /\ turn[t].step \in Steps /\ turn[t].iteration \in 0..MaxToolIterations /\ turn[t].left \in 0..MaxCalls
        /\ turn[t].records \cup turn[t].proposed \subseteq Ids
    /\ deletion.step \in {"idle", "memories", "tools", "messages", "row"}
    /\ callsLeft \in 0..setting.reviews

\* A record of a tool call names the answer it served and no other, and once the
\* turn has its answer and its links, every record of it does; the records and
\* memories of a conversation go or are detached with it (models/tool_call.py,
\* delete_conversation).
AuditLinked ==
    /\ \A id \in DOMAIN tools : tools[id] # Null => tools[id] = Answer(id[1]) /\ Stored(tools[id])
    /\ ~May("insert") =>
        \A t \in Turns : At(t, "done") => \A id \in turn[t].records \cap DOMAIN tools : tools[id] = Answer(t)
    /\ conv.state = "gone" =>
        messages = << >> /\ tools = << >> /\ \A m \in DOMAIN memories : ~memories[m].linked /\ memories[m].message = Null

\* What a reviewer decided of a memory stays decided, and a memory goes only when
\* it is deleted itself, whatever its turn and the deletion of its conversation
\* write meanwhile.
ReviewStands ==
    [][\A m \in DOMAIN memories :
        /\ m \notin DOMAIN memories' => Forget(m)
        /\ m \in DOMAIN memories' /\ memories'[m].status # memories[m].status => Review(m)]_chatVars

\* Between the turns of a conversation without failures and overlaps that the cut of
\* the history has not reached, the title is of the first exchange or of the last
\* multiple of three (_update_title).
Rest == setting.calm /\ messages # << >> /\ \A t \in Turns : IsOver(t) \/ At(t, "idle")
TitleCurrent ==
    Rest /\ Len(messages) <= MaxHistoryMessages => conv.title = TitleAt(Len(messages))

\* However long such a conversation gets, its title is never three exchanges old, as
\* the docstring of _update_title says.
TitleRefreshed ==
    Rest => Len(messages) - conv.title.of < 2 * TitleRefreshInterval

\* A turn that has begun comes to an end: the tool loop is bounded, and neither a
\* failure nor the deletion of the conversation leaves it waiting.
TurnsEnd == []<>(\A t \in Turns : At(t, "idle") \/ IsOver(t))

\* A conversation that is to be deleted gets deleted, although a turn may add rows
\* between any two statements of a deletion.
DeletionSucceeds == (setting.deletes /\ Live) ~> (conv.state = "gone")

\* Neither of two requests about one conversation keeps the other from its end
\* (_run_tool_loop, delete_conversation and the handlers in api/chat.py).
RequestsEnd == TurnsEnd /\ DeletionSucceeds
=============================================================================
