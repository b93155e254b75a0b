------------------------------ MODULE Console -------------------------------
(***************************************************************************)
(* The agent's config console: requests of two browser tabs that write one *)
(* of the objects the console manages, next to an administrator who edits  *)
(* the same object by hand.                                                *)
(*                                                                         *)
(* An object has a part the console owns (the file under its key of a      *)
(* ConfigMap, the type and the prompt of the ConsumerPolicy, the label of  *)
(* a ResourceRequest) and a part it does not (other keys, the rest of the  *)
(* spec).  The console's client reads from the API server; a read and the  *)
(* write that follows are two steps, and an Update carries the version     *)
(* that was read.                                                          *)
(***************************************************************************)
EXTENDS Federation

CONSTANTS
    Tabs,           \* concurrent requests
    MaxEdits        \* bound on the administrator's edits

VARIABLES
    name,           \* the object the requests are about
    object,         \* that object at the API server
    tab,            \* the requests
    edits           \* the administrator's edits so far, the last one's mark

ConsoleVars == <<name, object, tab, edits>>

Names == {"prices", "capacity", "renewable", "policy", "workload",
          "request"}
Resources == {"cpu", "memory"}

(* What a form field may hold, by what the handlers tell apart: nothing,   *)
(* "80", "80%", "8Gi", or something else.                                  *)
Typed == {"", "number", "percent", "quantity", "junk"}
Forms == [Resources -> Typed]

Absent == [exists |-> FALSE, owned |-> "", rest |-> 0]
IdleTab == [pc |-> "idle", value |-> "", seen |-> Absent, fresh |-> FALSE,
         answer |-> "none"]

ConsoleInit ==
    /\ name \in Names
    /\ object = Absent
    /\ tab = [t \in Tabs |-> IdleTab]
    /\ edits = 0

----------------------------------------------------------------------------
(* Validation: a form that fails it is refused with 400 *)

(* The handlers skip fields left empty, but not all of them may be.        *)
SomeOf(form, valid) ==
    /\ \E r \in Resources : form[r] # ""
    /\ \A r \in Resources : form[r] \in valid \cup {""}

(* Prices are quantities.                                                  *)
PricesValid(form) == SomeOf(form, {"number", "quantity"})

(* capacityLine and parseCapacityPercent: a percentage or a quantity.      *)
CapacityValid(form) == SomeOf(form, {"number", "percent", "quantity"})

----------------------------------------------------------------------------
(* The requests *)

Respond(t, a) == tab' = [tab EXCEPT ![t] = [IdleTab EXCEPT !.answer = a]]

(* Someone changed the object: a version read before is no longer current. *)
Stale(tt) == [u \in Tabs |-> [tt[u] EXCEPT !.fresh = FALSE]]

(* The Get with which every upsert begins.                                 *)
Get(t, value) ==
    /\ tab' = [tab EXCEPT ![t] = [pc |-> "write", value |-> value,
                                  seen |-> object, fresh |-> TRUE,
                                  answer |-> "none"]]
    /\ UNCHANGED <<name, object, edits>>

Refuse(t) == Respond(t, "refused") /\ UNCHANGED <<name, object, edits>>

handlePrices(t) ==
    /\ name = "prices" /\ tab[t].pc = "idle"
    /\ \E form \in Forms :
          IF PricesValid(form) THEN Get(t, "prices") ELSE Refuse(t)

handleCapacity(t) ==
    /\ name = "capacity" /\ tab[t].pc = "idle"
    /\ \E form \in Forms :
          IF CapacityValid(form) THEN Get(t, "capacity") ELSE Refuse(t)

handleRenewable(t) ==
    /\ name = "renewable" /\ tab[t].pc = "idle"
    /\ \E value \in {"true", "false"} : Get(t, value)

(* The Delete of deleteConsumerPolicy and of handleWorkload: it is enough  *)
(* that the object is not there.                                           *)
Delete(t) ==
    /\ object' = Absent
    /\ tab' = [Stale(tab) EXCEPT ![t] = [IdleTab EXCEPT !.answer = "ok"]]
    /\ UNCHANGED <<name, edits>>

handlePolicy(t) ==
    /\ name = "policy" /\ tab[t].pc = "idle"
    /\ \/ Delete(t)                                      \* "None"
       \/ Get(t, "Price") \/ Get(t, "ConsumerChoice")
       \/ Refuse(t)                                      \* an unknown type

handleWorkload(t) ==
    /\ name = "workload" /\ tab[t].pc = "idle"
    /\ \/ Delete(t)
       \/ /\ object' = IF object.exists THEN object     \* AlreadyExists
                       ELSE [exists |-> TRUE, owned |-> "demo", rest |-> 0]
          /\ Respond(t, "ok")
          /\ UNCHANGED <<name, edits>>
       \/ Refuse(t)

(* A manual reservation: a ResourceRequest under a generated name (a       *)
(* second one has another name and is not this object), which carries the  *)
(* console's label.  It is released in two steps, and one without the      *)
(* label is not.                                                           *)
handleReservation(t) ==
    /\ name = "request" /\ tab[t].pc = "idle"
    /\ \/ \E form \in Forms :
             IF PricesValid(form)                        \* quantities
             THEN /\ object' = IF object.exists THEN object
                               ELSE [exists |-> TRUE, owned |-> "label",
                                     rest |-> 0]
                  /\ Respond(t, "ok")
                  /\ UNCHANGED <<name, edits>>
             ELSE Refuse(t)
       \/ IF object.exists /\ object.owned = "label"
          THEN Get(t, "release")
          ELSE /\ Respond(t, IF object.exists THEN "error" ELSE "ok")
               /\ UNCHANGED <<name, object, edits>>

(* The Delete of releaseManualReservation goes by the name.                *)
Release(t) ==
    /\ tab[t].pc = "write" /\ tab[t].value = "release"
    /\ object' = Absent
    /\ tab' = [Stale(tab) EXCEPT ![t] =
                  [IdleTab EXCEPT !.answer =
                                   IF object.exists THEN "ok" ELSE "error"]]
    /\ UNCHANGED <<name, edits>>

(* Mutant: the Update does not carry the version that was read. *)
UpsertForced(t) ==
    LET r == tab[t]
        new == [exists |-> TRUE, owned |-> r.value, rest |-> r.seen.rest]
    IN  /\ r.pc = "write" /\ r.value # "release"
        /\ IF r.seen.exists = object.exists
           THEN /\ object' = new
                /\ tab' = [Stale(tab) EXCEPT ![t] =
                              [IdleTab EXCEPT !.answer = "ok"]]
           ELSE Respond(t, "error") /\ UNCHANGED object
        /\ UNCHANGED <<name, edits>>

(* upsertConfigMap and upsertConsumerPolicy, after the Get: a Create when  *)
(* there was no object, an Update of the copy that was read otherwise.     *)
(* Neither is tried again: AlreadyExists, a conflict and NotFound are      *)
(* answered with 500.                                                      *)
Upsert(t) ==
    LET r == tab[t]
        new == [exists |-> TRUE, owned |-> r.value, rest |-> r.seen.rest]
    IN  /\ r.pc = "write" /\ r.value # "release"
        /\ IF IF r.seen.exists THEN r.fresh ELSE ~object.exists
           THEN /\ object' = new
                /\ tab' = [Stale(tab) EXCEPT ![t] =
                              [IdleTab EXCEPT !.answer = "ok"]]
           ELSE Respond(t, "error") /\ UNCHANGED object
        /\ UNCHANGED <<name, edits>>

(* The API server cannot be reached.                                       *)
WriteFails(t) ==
    /\ tab[t].pc = "write"
    /\ Respond(t, "error")
    /\ UNCHANGED <<name, object, edits>>

----------------------------------------------------------------------------
(* The administrator writes the part the console does not own.             *)
Edit ==
    /\ edits < MaxEdits /\ name # "workload"
    /\ edits' = edits + 1
    /\ object' = [object EXCEPT !.exists = TRUE, !.rest = edits + 1]
    /\ tab' = Stale(tab)
    /\ UNCHANGED name

Request(t) ==
    \/ handlePrices(t) \/ handleCapacity(t) \/ handleRenewable(t)
    \/ handlePolicy(t) \/ handleWorkload(t) \/ handleReservation(t)
    \/ Upsert(t) \/ Release(t) \/ WriteFails(t)

ConsoleNext == Edit \/ \E t \in Tabs : Request(t)

ConsoleSpec == ConsoleInit /\ [][ConsoleNext]_ConsoleVars

----------------------------------------------------------------------------
ConsoleTypeOK ==
    /\ name \in Names /\ edits \in 0 .. MaxEdits
    /\ object \in [exists: BOOLEAN, rest: 0 .. MaxEdits,
                   owned: {"", "prices", "capacity", "true", "false",
                           "Price", "ConsumerChoice", "demo", "label"}]
    /\ \A t \in Tabs : /\ tab[t].pc \in {"idle", "write"}
                       /\ tab[t].answer \in {"none", "ok", "error", "refused"}

(* A request never undoes an edit of a part the console does not own: as   *)
(* long as the object is not deleted the administrator's last edit is in   *)
(* it, whatever copies the requests had read before the edit.              *)
OtherKeysSurvive ==
    [][object.exists /\ object'.exists =>
          object'.rest >= object.rest]_ConsoleVars
=============================================================================
