------------------------------ MODULE MCBridge ------------------------------
(***************************************************************************)
(* The New API bridge of one user for TLC: the binding and the runtime     *)
(* credentials (Credentials), adjustments of the quota at New API          *)
(* (QuotaAdjust), the user's keys (PortalKeys), or the quota's             *)
(* replenishing (RuntimePool). All but the first only read the binding,    *)
(* and their steps may be refused for it; so its value there is of no      *)
(* importance, and fixed.                                                  *)
(***************************************************************************)
EXTENDS Credentials, QuotaAdjust, PortalKeys, RuntimePool

CONSTANTS a1, a2, a3, k1, k2, n1, n2, old, c1, c2, c3, p1, p2

VARIABLE scene

\* a1 and a2 credit the quota under one key, a3 debits it under another.
KeyOfQuotaCall == [a \in Adjusters |-> IF a = a3 THEN k2 ELSE k1]

\* Two keys of the portal that go by one name, and a legacy key.
NameOfApiKey == [k \in ApiKeys |-> IF k = old THEN "other" ELSE "name"]

\* No call on a key, where another part is on.
QuietKeys ==
    /\ keyRow = [k \in ApiKeys |-> "active"] /\ remoteKeys = LegacyKeys /\ erasing = {}
    /\ keyCall = [c \in KeyCalls |-> [op |-> "delete", key |-> n1, at |-> "new"]]

\* No pass over the quota, where another part is on.
QuietPool ==
    /\ poolQuota = Target /\ poolRow = [provisioned |-> FALSE, status |-> "uninitialized"]
    /\ poolPass = [p \in Passes |-> NoPass]
    /\ overriding = {} /\ credited = {} /\ provisions = 0

\* Of the starts that differ in the names of the three calls, or of the two keys
\* of one name, one is enough.
Rank(c) ==
    LET asked == keyCall[c]
    IN  (CASE asked.op = "create" -> 0 [] asked.op = "disable" -> 3 [] asked.op = "delete" -> 6)
          + (CASE asked.key = n1 -> 0 [] asked.key = n2 -> 1 [] asked.key = old -> 2)
KeysSorted == Rank(c1) <= Rank(c2) /\ Rank(c2) <= Rank(c3) /\ ~Present(n2)

MCInit ==
    /\ CredentialsInit /\ QuotaInit
    /\ \/ scene = "credentials" /\ QuietKeys /\ QuietPool
       \/ scene = "quota" /\ QuietKeys /\ QuietPool /\ binding = "none" /\ hasEmail
       \/ scene = "keys" /\ KeysInit /\ KeysSorted /\ QuietPool /\ binding = "none" /\ hasEmail
       \/ scene = "pool" /\ PoolInit /\ QuietKeys /\ binding = "none" /\ hasEmail

\* Every adjustment has come to its end.
QuotaRests ==
    /\ scene = "quota" /\ wire = {}
    /\ \A c \in Adjusters : adjuster[c].at \in {"answered", "gone"}
    /\ UNCHANGED <<vars, quotaVars, keyVars, poolVars>>

\* Every call on a key has been answered.
KeysRest ==
    /\ scene = "keys" /\ erasing = {}
    /\ \A c \in KeyCalls : keyCall[c].at \in {"told", "failed"}
    /\ UNCHANGED <<vars, quotaVars, keyVars, poolVars>>

MCNext ==
    /\ UNCHANGED scene
    /\ \/ scene = "credentials" /\ CredentialsNext /\ UNCHANGED <<quotaVars, keyVars, poolVars>>
       \/ scene = "quota" /\ QuotaNext /\ UNCHANGED <<vars, keyVars, poolVars>>
       \/ scene = "keys" /\ KeysNext /\ UNCHANGED <<vars, quotaVars, poolVars>>
       \/ scene = "pool" /\ PoolNext /\ UNCHANGED <<vars, quotaVars, keyVars>>
       \/ QuotaRests \/ KeysRest

MCSpec ==
    /\ MCInit /\ [][MCNext]_<<vars, quotaVars, keyVars, poolVars, scene>>
    /\ WF_vars(WorkerProgress)
=============================================================================
