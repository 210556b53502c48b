---------------------------- MODULE Registration ----------------------------
(***************************************************************************)
(* The road to an account, for one email address: somebody submits the     *)
(* registration form, a coordinator (technicians) or the head office       *)
(* (dealers) approves or rejects it, and the head office may also create   *)
(* the user by hand.  Every handler is split at its database round trips;  *)
(* only the transaction of approve is atomic.  A handler that answers with *)
(* an error and has changed nothing is a step that is not enabled.         *)
(***************************************************************************)
CONSTANTS Handlers, Secrets

VARIABLES
    request,    \* the row of registration_requests for the address
    holder,     \* how the user that holds the address came to be
    granted,    \* every account created by an approval, with its approver
    desk,       \* what each handler is doing
    raced       \* whether two handlers were ever under way at once

vars == <<request, holder, granted, desk, raced>>

Forms == [role : {"TECHNICIAN", "DEALER"}, secret : Secrets]
Approvers == {"HQ", "COORDINATOR"}
Phases == {"idle", "check", "store", "grant", "refuse", "create"}

TypeOK ==
    /\ request \in [status : {"NONE", "PENDING", "APPROVED", "REJECTED"}, form : Forms]
    /\ holder \in {"nobody", "approval", "admin"}
    /\ granted \subseteq [by : Approvers, form : Forms]
    /\ desk \in [Handlers -> [phase : Phases, by : Approvers, form : Forms]]
    /\ raced \in BOOLEAN

Init ==
    /\ request \in [status : {"NONE"}, form : Forms]
    /\ holder = "nobody"
    /\ granted = {}
    /\ desk \in [Handlers -> [phase : {"idle"}, by : {"HQ"}, form : {request.form}]]
    /\ raced = FALSE

-----------------------------------------------------------------------------
MayDecide(approver, role) ==
    /\ approver = "COORDINATOR" => role = "TECHNICIAN"
    /\ approver = "HQ" => role = "DEALER"

Begin(h, phase, by, form) ==
    /\ desk[h].phase = "idle"
    /\ desk' = [desk EXCEPT ![h] = [phase |-> phase, by |-> by, form |-> form]]
    /\ raced' = (raced \/ \E g \in Handlers : desk[g].phase # "idle")

Move(h, from, to) ==
    /\ desk[h].phase = from
    /\ desk' = [desk EXCEPT ![h].phase = to]
    /\ UNCHANGED raced

\* register finds no user with the address.
Register(h, form) ==
    /\ holder = "nobody"
    /\ Begin(h, "check", "HQ", form)
    /\ UNCHANGED <<request, holder, granted>>

\* It finds no pending request and hashes the password.
CheckPending(h) ==
    /\ Move(h, "check", IF request.status = "PENDING" THEN "idle" ELSE "store")
    /\ UNCHANGED <<request, holder, granted>>

\* The upsert: whatever the row says by now, it is pending with this form.
StoreRequest(h) ==
    /\ Move(h, "store", "idle")
    /\ request' = [status |-> "PENDING", form |-> desk[h].form]
    /\ UNCHANGED <<holder, granted>>

\* The first round trip of approve and of reject.
Decide(h, by, phase) ==
    /\ request.status = "PENDING"
    /\ MayDecide(by, request.form.role)
    /\ Begin(h, phase, by, request.form)
    /\ UNCHANGED <<request, holder, granted>>

\* The account approve makes, and one made from the row as it is by then.
GrantedNow(h) == [by |-> desk[h].by, form |-> request.form]
Account(h) == [by |-> desk[h].by, form |-> desk[h].form]

\* The transaction of approve, from the row as it was read; it is rolled back
\* when the address is taken.
Grant(h) ==
    /\ Move(h, "grant", "idle")
    /\ \/ /\ holder # "nobody"
          /\ UNCHANGED <<request, holder, granted>>
       \/ /\ holder = "nobody"
          /\ holder' = "approval"
          /\ granted' = granted \cup {Account(h)}
          /\ request' = [request EXCEPT !.status = "APPROVED"]

\* The update of reject does not look at the row again.
Refuse(h) ==
    /\ Move(h, "refuse", "idle")
    /\ request' = [request EXCEPT !.status = "REJECTED"]
    /\ UNCHANGED <<holder, granted>>

\* The head office creates the user by hand.
CreateUser(h) ==
    /\ holder = "nobody"
    /\ Begin(h, "create", "HQ", request.form)
    /\ UNCHANGED <<request, holder, granted>>

InsertUser(h) ==
    /\ Move(h, "create", "idle")
    /\ holder' = IF holder = "nobody" THEN "admin" ELSE holder
    /\ UNCHANGED <<request, granted>>

\* The head office gives the user another address.
ChangeEmail ==
    /\ holder # "nobody"
    /\ holder' = "nobody"
    /\ UNCHANGED <<request, granted, desk, raced>>

Next ==
    \/ \E h \in Handlers, form \in Forms : Register(h, form)
    \/ \E h \in Handlers, by \in Approvers, phase \in {"grant", "refuse"} : Decide(h, by, phase)
    \/ \E h \in Handlers :
         CheckPending(h) \/ StoreRequest(h) \/ Grant(h) \/ Refuse(h) \/ CreateUser(h) \/ InsertUser(h)
    \/ ChangeEmail

Spec == Init /\ [][Next]_vars

-----------------------------------------------------------------------------
\* An account made by an approval has the role its approver is entitled to
\* decide about, however the request was resubmitted meanwhile; a request is
\* APPROVED only with such an account; and unless two handlers overlapped, an
\* account made by an approval stands beside an APPROVED request with the form
\* it was made from (approve, reject and register all check before they write).
Entitled == \A g \in granted : MayDecide(g.by, g.form.role)

ApprovedHasAccount == request.status = "APPROVED" => granted # {}

DecisionStands ==
    ~raced => /\ holder = "approval" => request.status = "APPROVED"
              /\ request.status = "APPROVED" =>
                    \E by \in Approvers : [by |-> by, form |-> request.form] \in granted

AccountsMatchDecisions == Entitled /\ ApprovedHasAccount /\ DecisionStands
=============================================================================
