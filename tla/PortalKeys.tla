----------------------------- MODULE PortalKeys -----------------------------
(***************************************************************************)
(* The API keys of one user: createPortalApiKey, disablePortalApiKey and   *)
(* deletePortalApiKey (src/src/features/newapi-bridge/server/portal.ts).   *)
(*                                                                         *)
(* A key is a row of portal_api_key that the gateway looks up, or a legacy *)
(* one: a row of newapi_key_binding for a token at New API, which clients  *)
(* may use there past the portal.  A legacy key can only be deleted, at    *)
(* New API first; the request that does so may be lost, or arrive after    *)
(* its sender has given up.                                                *)
(***************************************************************************)
CONSTANTS
    KeyCalls,   \* calls of the user, one operation on one key each
    ApiKeys,    \* the keys there are, or that are created
    LegacyKeys, \* those from before the portal's own keys
    NameOfKey   \* the names of the keys

ASSUME PortalKeysAssumption == LegacyKeys \subseteq ApiKeys

VARIABLES
    keyRow,     \* the status of each key's row
    keyCall,    \* what each call is to do, where it is, what it was told
    remoteKeys, \* legacy keys whose token New API accepts
    erasing     \* legacy deletions on their way to New API

keyVars == <<keyRow, keyCall, remoteKeys, erasing>>

LocalKeys == ApiKeys \ LegacyKeys

\*   new       not called yet
\*   look      about to read the row of the key, or of its name
\*   insert, disable, delete    about to write it
\*   sent      the deletion has been sent to New API
\*   save      New API does not have the token any more
\*   audit     the row is written, the audit entry is not
\*   told, failed               the answers
KeyStages ==
    {"new", "look", "insert", "disable", "delete", "sent", "save", "audit", "told", "failed"}

Present(k) == keyRow[k] \notin {"absent", "deleted"}

\* The partial unique index on the names of a user's keys.
NameTaken(k) == \E l \in LocalKeys : Present(l) /\ NameOfKey[l] = NameOfKey[k]

\* Each creation has a key, and an id, of its own.
KeysInit ==
    /\ keyRow \in [ApiKeys -> {"absent", "active"}]
    /\ \A k \in ApiKeys : IF k \in LegacyKeys THEN Present(k)
                          ELSE Present(k) => \A l \in LocalKeys \ {k} :
                                  Present(l) => NameOfKey[l] # NameOfKey[k]
    /\ keyCall \in [KeyCalls -> [op : {"create", "disable", "delete"}, key : ApiKeys,
                                 at : {"new"}]]
    /\ \A c \in KeyCalls : keyCall[c].op = "create" =>
          /\ keyCall[c].key \in LocalKeys /\ ~Present(keyCall[c].key)
          /\ \A d \in KeyCalls \ {c} :
                keyCall[d].op = "create" => keyCall[d].key # keyCall[c].key
    /\ remoteKeys = LegacyKeys
    /\ erasing = {}

At(c, op, stage) == keyCall[c].op = op /\ keyCall[c].at = stage
KeyGoes(c, stage) == keyCall' = [keyCall EXCEPT ![c].at = stage]
WriteKey(c, status) == keyRow' = [keyRow EXCEPT ![keyCall[c].key] = status]

CallKey(c) ==
    /\ keyCall[c].at = "new"
    /\ KeyGoes(c, "look")
    /\ UNCHANGED <<keyRow, remoteKeys, erasing>>

-----------------------------------------------------------------------------
(* Creating a key.                                                         *)

\* The group is refused, or the name.
LookForName(c) ==
    /\ At(c, "create", "look")
    /\ \/ ~NameTaken(keyCall[c].key) /\ KeyGoes(c, "insert")
       \/ KeyGoes(c, "failed")
    /\ UNCHANGED <<keyRow, remoteKeys, erasing>>

InsertKey(c) ==
    /\ At(c, "create", "insert")
    /\ IF NameTaken(keyCall[c].key)
       THEN KeyGoes(c, "failed") /\ UNCHANGED keyRow
       ELSE KeyGoes(c, "audit") /\ WriteKey(c, "active")
    /\ UNCHANGED <<remoteKeys, erasing>>

-----------------------------------------------------------------------------
(* Disabling and deleting a key of the portal.                             *)

LookToDisable(c) ==
    /\ At(c, "disable", "look")
    /\ KeyGoes(c, CASE keyCall[c].key \in LegacyKeys       -> "failed"
                    [] keyRow[keyCall[c].key] = "active"   -> "disable"
                    [] keyRow[keyCall[c].key] = "disabled" -> "told"
                    [] OTHER                               -> "failed")
    /\ UNCHANGED <<keyRow, remoteKeys, erasing>>

\* An update that finds the row changed starts again.
DisableIfActive(c) ==
    /\ At(c, "disable", "disable")
    /\ IF keyRow[keyCall[c].key] = "active"
       THEN WriteKey(c, "disabled") /\ KeyGoes(c, "audit")
       ELSE UNCHANGED keyRow /\ KeyGoes(c, "look")
    /\ UNCHANGED <<remoteKeys, erasing>>

LookToDelete(c) ==
    /\ At(c, "delete", "look")
    /\ KeyGoes(c, CASE keyRow[keyCall[c].key] = "absent"  -> "failed"
                    [] keyRow[keyCall[c].key] = "deleted" -> "told"
                    [] OTHER                              -> "delete")
    /\ UNCHANGED <<keyRow, remoteKeys, erasing>>

DeleteLocal(c) ==
    /\ At(c, "delete", "delete") /\ keyCall[c].key \in LocalKeys
    /\ IF keyRow[keyCall[c].key] # "deleted"
       THEN WriteKey(c, "deleted") /\ KeyGoes(c, "audit")
       ELSE UNCHANGED keyRow /\ KeyGoes(c, "look")
    /\ UNCHANGED <<remoteKeys, erasing>>

-----------------------------------------------------------------------------
(* Deleting a legacy key.                                                  *)

\* Without the binding of the token's owner there is no access token.
SendDeletion(c) ==
    /\ At(c, "delete", "delete") /\ keyCall[c].key \in LegacyKeys
    /\ \/ KeyGoes(c, "sent") /\ erasing' = erasing \cup {c}
       \/ KeyGoes(c, "failed") /\ UNCHANGED erasing
    /\ UNCHANGED <<keyRow, remoteKeys>>

\* New API carries the deletion out, or it is lost or refused.
ArriveDeletion(c) ==
    /\ c \in erasing
    /\ erasing' = erasing \ {c}
    /\ remoteKeys' \in {remoteKeys, remoteKeys \ {keyCall[c].key}}
    /\ UNCHANGED <<keyRow, keyCall>>

\* Any answer ends with the key hidden.
ReceiveAnything(c) ==
    /\ At(c, "delete", "sent")
    /\ KeyGoes(c, "save")
    /\ UNCHANGED <<keyRow, remoteKeys, erasing>>

\* Success, or 404 because the token was gone; any other error leaves the row
\* as it is but for the text of the error.
ReceiveDeletion(c) ==
    /\ At(c, "delete", "sent")
    /\ \/ c \notin erasing /\ keyCall[c].key \notin remoteKeys /\ KeyGoes(c, "save")
       \/ KeyGoes(c, "failed")
    /\ UNCHANGED <<keyRow, remoteKeys, erasing>>

\* Somebody else may have written the same: the answer is the same, too.
SaveDeletion(c) ==
    /\ At(c, "delete", "save")
    /\ IF keyRow[keyCall[c].key] # "deleted"
       THEN WriteKey(c, "deleted") /\ KeyGoes(c, "audit")
       ELSE UNCHANGED keyRow /\ KeyGoes(c, "told")
    /\ UNCHANGED <<remoteKeys, erasing>>

-----------------------------------------------------------------------------
\* The answer is an error if the audit entry cannot be written, though the
\* key has changed.
AuditKey(c) ==
    /\ keyCall[c].at = "audit"
    /\ KeyGoes(c, "told") \/ KeyGoes(c, "failed")
    /\ UNCHANGED <<keyRow, remoteKeys, erasing>>

\* The database fails, or the process stops, for one call or for all.
KeyCallStops(c) ==
    /\ keyCall[c].at \in KeyStages \ {"new", "told", "failed"}
    /\ KeyGoes(c, "failed")
    /\ UNCHANGED <<keyRow, remoteKeys, erasing>>

KeysNext ==
    \E c \in KeyCalls :
        \/ CallKey(c) \/ LookForName(c) \/ InsertKey(c)
        \/ LookToDisable(c) \/ DisableIfActive(c) \/ LookToDelete(c) \/ DeleteLocal(c)
        \/ SendDeletion(c) \/ ArriveDeletion(c) \/ ReceiveDeletion(c) \/ SaveDeletion(c)
        \/ AuditKey(c) \/ KeyCallStops(c)

-----------------------------------------------------------------------------
(***************************************************************************)
(* A key that the user was told is deleted, or that the console hides as   *)
(* deleted, works nowhere any more, and one that was disabled is not seen  *)
(* active again: whatever calls race, fail or are late at New API.  "Not   *)
(* only hidden here: the old token could go on being used" (portal.ts:     *)
(* 1488-1489).                                                             *)
(***************************************************************************)
RevokedStaysRevoked ==
    /\ \A c \in KeyCalls :
          /\ At(c, "delete", "told")  => keyRow[keyCall[c].key] = "deleted"
          /\ At(c, "disable", "told") => keyRow[keyCall[c].key] \in {"disabled", "deleted"}
    /\ \A k \in LegacyKeys : keyRow[k] = "deleted" => k \notin remoteKeys
=============================================================================
