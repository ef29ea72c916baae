----------------------------- MODULE MCBilling -----------------------------
(***************************************************************************)
(* The price of a request and the bill of its answer, for TLC: Catalog     *)
(* with versions that change under requests, or UsageFlow with one answer  *)
(* under a price that does not.  They share the operators of Pricing and   *)
(* no state: a settlement reads the immutable version it was admitted at.  *)
(***************************************************************************)
EXTENDS MCCatalog, MCUsageFlow

VARIABLE scene

MCInit ==
    \/ /\ scene = "prices"
       /\ Init
       /\ \E a \in {CHOOSE a \in Answers : TRUE} : resp = a.resp /\ route = a.route
       /\ remaining = <<>> /\ ext = NewExtractor /\ finalized = TRUE
       /\ row = [OpenRow EXCEPT !.status = "none"] /\ verdict = "none"
    \/ /\ scene = "bills"
       /\ UsageInit
       /\ listing = None /\ profiles = FirstProfiles /\ deleting = None /\ edits = 0
       /\ routes = <<>> /\ prices = <<>>
       /\ req = [r \in Requests |-> [Idle EXCEPT !.stage = "refused"]]
       /\ seen = [r \in Requests |-> {}]

MCNext ==
    /\ UNCHANGED scene
    /\ \/ scene = "prices" /\ Next /\ UNCHANGED usageVars
       \/ scene = "bills" /\ UsageNext /\ UNCHANGED vars

MCSpec == /\ MCInit /\ [][MCNext]_<<vars, usageVars, scene>>
          /\ \A r \in Requests : WF_vars(RequestStep(r))
=============================================================================
