----------------------------- MODULE NetworkAgent -----------------------------
(***************************************************************************)
(* ShellNetworkAgent: the secrets that NetworkManager asks the shell for.  *)
(* A request looks in the keyring and, when it finds nothing, asks the     *)
(* user; what the user enters is saved, after what the keyring has of the  *)
(* connection was deleted.  The keyring serves its calls in order and      *)
(* answers in the main loop; it gives the id of an item once.              *)
(***************************************************************************)
EXTENDS Integers, Sequences, FiniteSets, FiniteSetsExt, SequencesExt

CONSTANTS
  RequestIds,     \* "%s/%s" of connection path and setting name
  ConnectionOf,   \* request id -> the connection
  SecretKeys,     \* the names of the secrets of a setting
  OwnedKeys,      \* those that the agent saves: NM_SETTING_SECRET_FLAG_AGENT_OWNED
  MaxAsked        \* bound: what NetworkManager asks for

ASSUME AgentAssumption ==
  /\ DOMAIN ConnectionOf = RequestIds
  /\ OwnedKeys \subseteq SecretKeys /\ IsFiniteSet(SecretKeys)
  /\ MaxAsked \in Nat

VARIABLES
  agentRequests,       \* priv->requests: request id -> {} or {its ShellAgentRequest}
  asks,           \* how many requests NetworkManager made
  answered,       \* call -> how many times its callback ran
  calls,          \* what the keyring was asked for and did not serve yet
  items,          \* what is in the keyring
  lastSerial,     \* the id that it gave last
  wanted          \* history: connection -> the secrets that the user last confirmed for it

agentVars == <<agentRequests, asks, answered, calls, items, lastSerial, wanted>>

Connections == {ConnectionOf[r] : r \in RequestIds}
AgentCalls == 1 .. MaxAsked

\* A secret has for its value the call in which the user entered it.
ItemType == [serial : Nat, connection : Connections, setting : RequestIds, key : SecretKeys, value : AgentCalls]
AgentRequestType ==
  [call : AgentCalls, stage : {"keyring", "ui"}, interactive : BOOLEAN, hinted : BOOLEAN,
   entries : UNION {[ks -> AgentCalls] : ks \in SUBSET SecretKeys}]

KeyringCall(op, id, call, what) == [op |-> op, id |-> id, call |-> call, what |-> what]

-----------------------------------------------------------------------------
\* Mutant: the call to the keyring is not cancelled.
RequestFreeKeepsCall(id) == /\ agentRequests' = [agentRequests EXCEPT ![id] = {}] /\ UNCHANGED calls

\* shell_agent_request_free(): an outstanding lookup is cancelled with the request.
RequestFree(id) ==
  /\ agentRequests' = [agentRequests EXCEPT ![id] = {}]
  /\ calls' = [k \in DOMAIN calls |->
                 IF calls[k].op = "lookup" /\ calls[k].id = id
                 THEN KeyringCall("cancelled", id, calls[k].call, {}) ELSE calls[k]]

AgentInit ==
  /\ agentRequests = [r \in RequestIds |-> {}]
  /\ asks = 0 /\ answered = [c \in AgentCalls |-> 0]
  /\ calls = <<>> /\ items = {} /\ lastSerial = 0
  /\ wanted = [c \in Connections |-> {}]

\* shell_network_agent_get_secrets(): NetworkManager cancels a request before it
\* makes the same one again.  Where the flags are tested for the interaction
\* (with &&) any flag will do for a connection that is always to be asked for.
GetSecrets(id) ==
  /\ asks < MaxAsked /\ agentRequests[id] = {}
  /\ \E interactive, new, hinted, alwaysAsk \in BOOLEAN :
       LET stage == IF new \/ (interactive /\ alwaysAsk) THEN "ui" ELSE "keyring" IN
         /\ agentRequests' = [agentRequests EXCEPT ![id] =
              {[call |-> asks + 1, stage |-> stage, interactive |-> interactive, hinted |-> hinted, entries |-> <<>>]}]
         /\ calls' = IF stage = "ui" THEN calls ELSE Append(calls, KeyringCall("lookup", id, asks + 1, {}))
  /\ asks' = asks + 1
  /\ UNCHANGED <<answered, items, lastSerial, wanted>>

Answered(call) == answered' = [answered EXCEPT ![call] = @ + 1]

\* What the keyring has for a request.
StoredItems(id) == {i \in items : i.connection = ConnectionOf[id] /\ i.setting = id}
StoredEntries(id) ==
  [k \in {i.key : i \in StoredItems(id)} |-> (CHOOSE i \in StoredItems(id) : i.key = k).value]

\* get_secrets_keyring_cb(): the keyring is locked, or fails, or says what it has;
\* with hints strv_has() reads on past the end of the first one, so the names that
\* it finds there are anything, and without any it finds none.
LookupServed ==
  /\ calls # <<>> /\ Head(calls).op = "lookup"
  /\ LET id == Head(calls).id
         call == Head(calls).call
     IN \/ /\ Answered(call)                       \* denied, an error, or enough was found
           /\ agentRequests' = [agentRequests EXCEPT ![id] = {}]
           /\ calls' = Tail(calls)
        \/ /\ \E r \in agentRequests[id] :
                /\ r.interactive /\ (r.hinted \/ StoredItems(id) = {})
                /\ agentRequests' = [agentRequests EXCEPT ![id] = {[r EXCEPT !.stage = "ui", !.entries = StoredEntries(id)]}]
           /\ calls' = Tail(calls)
           /\ UNCHANGED answered
  /\ UNCHANGED <<asks, items, lastSerial, wanted>>

\* The callback of a call that was cancelled returns at once.
CancelledServed ==
  /\ calls # <<>> /\ Head(calls).op = "cancelled"
  /\ calls' = Tail(calls)
  /\ UNCHANGED <<agentRequests, asks, answered, items, lastSerial, wanted>>

\* shell_network_agent_cancel_get_secrets()
CancelGetSecrets(id) ==
  /\ \E r \in agentRequests[id] : Answered(r.call)
  /\ RequestFree(id)
  /\ UNCHANGED <<asks, items, lastSerial, wanted>>

\* NetworkSecretDialog: Cancel, or a dialog that cannot be shown:
\* shell_network_agent_respond (USER_CANCELED or INTERNAL_ERROR)
RespondRefused(id) ==
  /\ \E r \in agentRequests[id] : r.stage = "ui" /\ Answered(r.call)
  /\ RequestFree(id)
  /\ UNCHANGED <<asks, items, lastSerial, wanted>>

-----------------------------------------------------------------------------
\* Saving.  r is what is to be saved: [call, secrets]

\* shell_network_agent_save_secrets(): first delete what there is.
SaveSecrets(id, call, secrets) == calls' = Append(calls, KeyringCall("find", id, call, secrets))

\* set_password() for the keys of the dialog and respond (CONFIRMED): the secrets
\* of the setting are saved, only those that the agent owns.
RespondConfirmed(id) ==
  /\ \E r \in agentRequests[id], keys \in SUBSET SecretKeys :
       LET entries == [k \in DOMAIN r.entries \cup keys |-> IF k \in keys THEN r.call ELSE r.entries[k]]
           secrets == {[setting |-> id, key |-> k, value |-> entries[k]] : k \in DOMAIN entries \cap OwnedKeys}
       IN /\ r.stage = "ui"
          /\ Answered(r.call)
          /\ SaveSecrets(id, r.call, secrets)
          /\ wanted' = [wanted EXCEPT ![ConnectionOf[id]] = secrets]
  /\ agentRequests' = [agentRequests EXCEPT ![id] = {}]
  /\ UNCHANGED <<asks, items, lastSerial>>

\* delete_find_items_cb() and, when its caller saves, save_delete_cb(): the items
\* of the connection, whatever their setting, are deleted and the new ones made.
FindServed ==
  /\ calls # <<>> /\ Head(calls).op \in {"find", "erase"}
  /\ LET c == Head(calls)
         mine == {i \in items : i.connection = ConnectionOf[c.id]}
     IN \/ calls' = Tail(calls) \o SetToSeq({KeyringCall("delete", c.id, c.call, {i}) : i \in mine})
                    \o SetToSeq({KeyringCall("create", c.id, c.call, {s}) : s \in c.what})
        \/ calls' = Tail(calls) \o SetToSeq({KeyringCall("create", c.id, c.call, {s}) : s \in c.what})   \* the search fails
  /\ IF Head(calls).op = "erase" THEN Answered(Head(calls).call) ELSE UNCHANGED answered
  /\ UNCHANGED <<agentRequests, asks, items, lastSerial, wanted>>

\* NetworkManager deletes a connection: shell_network_agent_delete_secrets()
DeleteSecrets(id) ==
  /\ asks < MaxAsked
  /\ asks' = asks + 1
  /\ calls' = Append(calls, KeyringCall("erase", id, asks + 1, {}))
  /\ wanted' = [wanted EXCEPT ![ConnectionOf[id]] = {}]
  /\ UNCHANGED <<agentRequests, answered, items, lastSerial>>

\* gnome_keyring_item_delete()
DeleteServed ==
  /\ calls # <<>> /\ Head(calls).op = "delete"
  /\ \E of \in Head(calls).what : items' = {i \in items : i.serial # of.serial}
  /\ calls' = Tail(calls)
  /\ UNCHANGED <<agentRequests, asks, answered, lastSerial, wanted>>

\* gnome_keyring_item_create(), that updates an item with the same attributes
CreateServed ==
  /\ calls # <<>> /\ Head(calls).op = "create"
  /\ \E of \in Head(calls).what :
       LET same == {i \in items : i.setting = of.setting /\ i.key = of.key}
           made == [serial |-> lastSerial + 1, connection |-> ConnectionOf[of.setting], setting |-> of.setting,
                    key |-> of.key, value |-> of.value]
       IN IF same = {}
          THEN items' = items \cup {made} /\ lastSerial' = lastSerial + 1
          ELSE /\ items' = (items \ same) \cup {[i EXCEPT !.value = of.value] : i \in same}
               /\ UNCHANGED lastSerial
  /\ calls' = Tail(calls)
  /\ UNCHANGED <<agentRequests, asks, answered, wanted>>

AgentNext ==
  \/ \E id \in RequestIds :
       GetSecrets(id) \/ CancelGetSecrets(id) \/ RespondRefused(id) \/ RespondConfirmed(id) \/ DeleteSecrets(id)
  \/ LookupServed \/ CancelledServed \/ FindServed \/ DeleteServed \/ CreateServed

AgentSpec == AgentInit /\ [][AgentNext]_agentVars

-----------------------------------------------------------------------------
\* Types
AgentTypeOK ==
  /\ \A id \in RequestIds : Cardinality(agentRequests[id]) <= 1 /\ agentRequests[id] \subseteq AgentRequestType
  /\ asks \in 0 .. MaxAsked /\ answered \in [AgentCalls -> Nat]
  /\ \A c \in Range(calls) : c.op \in {"lookup", "cancelled", "find", "erase", "delete", "create"} /\ c.id \in RequestIds
  /\ items \subseteq ItemType

\* NetworkManager gets one answer to each of its requests, whichever of the
\* keyring, the user and the cancellation comes first: none while the request is
\* known, one when it is not, and none from a lookup that outlived its request.
AnsweredOnce ==
  \A c \in 1 .. asks :
    LET pending == \/ \E id \in RequestIds : \E r \in agentRequests[id] : r.call = c
                   \/ \E k \in Range(calls) : k.op = "erase" /\ k.call = c
    IN answered[c] = IF pending THEN 0 ELSE 1

\* The secrets that the user confirmed last for a connection are in the keyring
\* when it is done, although every save begins by deleting what there is, and
\* saves and deletions overlap: none deletes what a later one wrote.
SavedIsKept ==
  \A conn \in Connections :
    (\A c \in Range(calls) : ConnectionOf[c.id] = conn => c.op \in {"lookup", "cancelled"}) =>
      \A s \in wanted[conn] : \E i \in items : i.setting = s.setting /\ i.key = s.key /\ i.value = s.value

\* A secret that was asked for is answered once, and what was saved is what was
\* said last.
SecretsAreSafe == AgentTypeOK /\ AnsweredOnce /\ SavedIsKept
===============================================================================
