----------------------- MODULE ContextRegistryProofs -----------------------
(***************************************************************************)
(* The row of a context has the key and the name its owner was told last,  *)
(* for any number of requests, rebuilds, versions and restarts, as long as *)
(* nobody edits a context that is being provisioned.  The invariant adds   *)
(* what makes this inductive: the key a provisioning task holds is still   *)
(* the newest when it is written.                                          *)
(***************************************************************************)
EXTENDS ContextRegistry, TLAPS

\* A context starts without versions beyond the first (the row of provision_context).
LEMMA InitNewest == Init => NewestInv
<1>1. First \in Values /\ 0 \in 0 .. MaxChange /\ 0 \in 0 .. MaxCrash
  BY RegistryAssumption DEF First, Values
<1>2. IdleCall \in CallTask
      /\ IdleEdit \in [pc : {"idle", "master"}, field : Field, version : 0 .. MaxChange]
      /\ NoCall \in KbCall
  BY <1>1 DEF IdleCall, CallTask, IdleEdit, Field, NoCall, KbCall
<1>3. ASSUME Init PROVE TypeOK
  <2>1. /\ row \in [state : {"none", "live", "deleted"}, hosted : BOOLEAN]
        /\ values \in Values /\ newest \in Values
        /\ registry \in [present : BOOLEAN, values : Values]
    BY <1>1, <1>3 DEF Init
  <2>2. /\ prov \in CallTask /\ reb \in [Rebuilder -> CallTask]
        /\ edit \in [Editor -> [pc : {"idle", "master"}, field : Field,
                                 version : 0 .. MaxChange]]
    BY <1>2, <1>3 DEF Init
  <2>3. del \in {"idle", "master", "row"} /\ crashes \in 0 .. MaxCrash
        /\ disturbed \in BOOLEAN /\ calls \in [Caller -> KbCall]
    BY <1>1, <1>2, <1>3 DEF Init
  <2> QED
    BY <2>1, <2>2, <2>3 DEF TypeOK
<1>4. Init => NewestAccepted /\ ProvisioningIsCurrent
  BY DEF Init, NewestAccepted, ProvisioningIsCurrent, IdleCall
<1> QED
  BY <1>3, <1>4 DEF NewestInv

\* Every step of the handlers and tasks of contexts.py preserves the type invariant.
LEMMA StepType == TypeOK /\ [Next]_vars => TypeOK'
<1> SUFFICES ASSUME TypeOK, [Next]_vars PROVE TypeOK'
  OBVIOUS
<1>0. /\ row \in [state : {"none", "live", "deleted"}, hosted : BOOLEAN]
      /\ values \in Values /\ newest \in Values
      /\ registry \in [present : BOOLEAN, values : Values]
      /\ prov \in CallTask /\ reb \in [Rebuilder -> CallTask]
      /\ edit \in [Editor -> [pc : {"idle", "master"}, field : Field, version : 0 .. MaxChange]]
      /\ del \in {"idle", "master", "row"} /\ crashes \in 0 .. MaxCrash
      /\ disturbed \in BOOLEAN /\ calls \in [Caller -> KbCall]
  BY DEF TypeOK
<1>1. IdleCall \in CallTask
      /\ IdleEdit \in [pc : {"idle", "master"}, field : Field, version : 0 .. MaxChange]
      /\ NoCall \in KbCall
  BY RegistryAssumption DEF IdleCall, First, CallTask, Values, IdleEdit, Field, NoCall, KbCall
<1>2. CASE CreateContext
  BY <1>0, <1>2 DEF CreateContext, CallTask, TypeOK
<1>3. CASE ProvisionTaken
  BY <1>0, <1>3 DEF ProvisionTaken, Started, CallTask, TypeOK
<1>4. CASE Provisioned
  <2>1. prov.captured["api_key"] \in 0 .. MaxChange
    BY <1>0 DEF CallTask, Values, Field
  <2>2. values' \in Values /\ row' \in [state : {"none", "live", "deleted"}, hosted : BOOLEAN]
    BY <1>0, <1>4, <2>1 DEF Provisioned, Values
  <2> QED
    BY <1>0, <1>1, <1>4, <2>2 DEF Provisioned, TypeOK
<1>5. CASE ProvisionFails
  BY <1>0, <1>1, <1>5 DEF ProvisionFails, Disturbs, TypeOK
<1>6. ASSUME NEW b \in Rebuilder, RebuildContext(b) PROVE TypeOK'
  BY <1>0, <1>6 DEF RebuildContext, Asked, CallTask, TypeOK
<1>7. ASSUME NEW b \in Rebuilder, RebuildTaken(b) PROVE TypeOK'
  BY <1>0, <1>7 DEF RebuildTaken, Started, CallTask, TypeOK
<1>8. ASSUME NEW b \in Rebuilder, Rebuilt(b) \/ RebuildFails(b) PROVE TypeOK'
  BY <1>0, <1>1, <1>8 DEF Rebuilt, RebuildFails, TypeOK
<1>9. ASSUME NEW r \in Editor, NEW f \in Field, Edit(r, f) PROVE TypeOK'
  <2>1. newest[f] + 1 \in 0 .. MaxChange
    BY <1>0, <1>9, RegistryAssumption DEF Edit, Values
  <2>2. values' \in Values /\ newest' \in Values
    BY <1>0, <1>9, <2>1 DEF Edit, Values
  <2>3. edit' \in [Editor -> [pc : {"idle", "master"}, field : Field, version : 0 .. MaxChange]]
    BY <1>0, <1>9, <2>1 DEF Edit
  <2> QED
    BY <1>0, <1>9, <2>2, <2>3 DEF Edit, Asked, TypeOK
<1>10. ASSUME NEW r \in Editor, EditTaken(r) PROVE TypeOK'
  <2>1. registry' \in [present : BOOLEAN, values : Values]
    BY <1>0, <1>10 DEF EditTaken, Values
  <2> QED
    BY <1>0, <1>1, <1>10, <2>1 DEF EditTaken, TypeOK
<1>11. ASSUME NEW r \in Editor, EditLost(r) PROVE TypeOK'
  BY <1>0, <1>1, <1>11 DEF EditLost, Disturbs, TypeOK
<1>12. CASE DeleteContext
  BY <1>0, <1>12 DEF DeleteContext, Asked, TypeOK
<1>13. CASE DeleteTaken \/ DeleteLost \/ RowDeleted
  BY <1>0, <1>13 DEF DeleteTaken, DeleteLost, Disturbs, RowDeleted, TypeOK
<1>14. CASE Restart
  BY <1>0, <1>1, <1>14, RegistryAssumption DEF Restart, TypeOK
<1>15. CASE UNCHANGED vars
  BY <1>0, <1>15 DEF vars, TypeOK
<1>16. ASSUME NEW q \in Caller, NEW key \in 0 .. MaxChange, KbCallAsked(q, key) PROVE TypeOK'
  <2>1. calls' \in [Caller -> KbCall]
    BY <1>0, <1>16 DEF KbCallAsked, KbCall
  <2> QED
    BY <1>0, <1>16, <2>1 DEF KbCallAsked, TypeOK
<1>17. ASSUME NEW q \in Caller, KbCallAnswered(q) PROVE TypeOK'
  BY <1>0, <1>1, <1>17 DEF KbCallAnswered, TypeOK
<1> QED
  BY <1>2, <1>3, <1>4, <1>5, <1>6, <1>7, <1>8, <1>9, <1>10, <1>11, <1>12, <1>13, <1>14,
     <1>15, <1>16, <1>17 DEF Next

\* Nor does one lose the newest key: what writes the row writes a new version, or
\* the key that was captured, which is still the newest.
LEMMA StepNewest ==
  ASSUME "edits_early" \notin Habits PROVE NewestInv /\ [Next]_vars => NewestInv'
<1> SUFFICES ASSUME NewestInv, [Next]_vars PROVE NewestInv'
  OBVIOUS
<1>0. TypeOK /\ NewestAccepted /\ ProvisioningIsCurrent
  BY DEF NewestInv
<1>1. TypeOK'
  BY <1>0, StepType
<1> SUFFICES NewestAccepted' /\ ProvisioningIsCurrent'
  BY <1>1 DEF NewestInv
<1>2. CASE CreateContext
  BY <1>0, <1>2 DEF CreateContext, NewestAccepted, ProvisioningIsCurrent
<1>3. CASE ProvisionTaken
  BY <1>0, <1>3 DEF ProvisionTaken, NewestAccepted, ProvisioningIsCurrent, TypeOK, CallTask
<1>4. CASE Provisioned
  <2>1. row.state' = row.state /\ prov' = IdleCall /\ newest' = newest
    BY <1>0, <1>4 DEF Provisioned, TypeOK
  <2>2. row.state # "none"
    BY <1>0, <1>4 DEF Provisioned, ProvisioningIsCurrent
  <2>3. ASSUME row.state = "live" PROVE values' = newest
    <3>1. values = newest /\ prov.captured["api_key"] = newest["api_key"]
      BY <1>0, <1>4, <2>3 DEF Provisioned, NewestAccepted, ProvisioningIsCurrent
    <3>2. values' = [values EXCEPT !["api_key"] = newest["api_key"]]
      BY <1>4, <2>3, <3>1 DEF Provisioned
    <3> QED
      BY <1>0, <3>1, <3>2 DEF TypeOK, Values
  <2> QED
    BY <2>1, <2>2, <2>3 DEF NewestAccepted, ProvisioningIsCurrent, IdleCall
<1>5. CASE ProvisionFails
  BY <1>0, <1>5 DEF ProvisionFails, NewestAccepted, ProvisioningIsCurrent, IdleCall
<1>6. CASE \E b \in Rebuilder : \/ RebuildContext(b) \/ RebuildTaken(b)
                                \/ Rebuilt(b) \/ RebuildFails(b)
  BY <1>0, <1>6 DEF RebuildContext, RebuildTaken, Rebuilt, RebuildFails, NewestAccepted,
                    ProvisioningIsCurrent
<1>7. ASSUME NEW r \in Editor, NEW f \in Field, Edit(r, f)
      PROVE NewestAccepted' /\ ProvisioningIsCurrent'
  <2>1. prov.pc = "idle"
    BY <1>7 DEF Edit, Asked, MayAsk, Quiet
  <2>2. row.state = "live" /\ values = newest /\ values' = newest'
    BY <1>0, <1>7 DEF Edit, NewestAccepted
  <2> QED
    BY <1>7, <2>1, <2>2 DEF Edit, NewestAccepted, ProvisioningIsCurrent
<1>8. CASE \E r \in Editor : EditTaken(r) \/ EditLost(r)
  BY <1>0, <1>8 DEF EditTaken, EditLost, NewestAccepted, ProvisioningIsCurrent
<1>9. CASE DeleteContext \/ DeleteTaken \/ DeleteLost \/ RowDeleted
  BY <1>0, <1>9 DEF DeleteContext, DeleteTaken, DeleteLost, RowDeleted, NewestAccepted,
                    ProvisioningIsCurrent, TypeOK
<1>10. CASE Restart
  BY <1>0, <1>10 DEF Restart, NewestAccepted, ProvisioningIsCurrent, IdleCall
<1>11. CASE UNCHANGED vars
  BY <1>0, <1>11 DEF vars, NewestAccepted, ProvisioningIsCurrent
<1>12. CASE \E q \in Caller : \/ KbCallAnswered(q)
                              \/ \E key \in 0 .. MaxChange : KbCallAsked(q, key)
  BY <1>0, <1>12 DEF KbCallAnswered, KbCallAsked, NewestAccepted, ProvisioningIsCurrent
<1> QED
  BY <1>2, <1>3, <1>4, <1>5, <1>6, <1>7, <1>8, <1>9, <1>10, <1>11, <1>12 DEF Next

\* The inductive invariant holds of every behaviour of provision, rebuild, edit and
\* delete in which no edit meets a provisioning task.
THEOREM NewestInvariant == ASSUME "edits_early" \notin Habits PROVE Spec => []NewestInv
<1>1. Init => NewestInv
  BY InitNewest
<1>2. NewestInv /\ [Next]_vars => NewestInv'
  BY StepNewest
<1> QED
  BY <1>1, <1>2, PTL DEF Spec

\* "Old key stops working immediately, the new one works at once" (regenerate_api_key),
\* with any number of rebuilds, edits, lost calls and restarts.
THEOREM KeyIsNewest == ASSUME "edits_early" \notin Habits PROVE Spec => []NewestAccepted
<1>1. NewestInv => NewestAccepted
  BY DEF NewestInv
<1> QED
  BY <1>1, NewestInvariant, PTL

\* "Rotating a key takes effect instantly" (kb_api.py): a call is let through on the
\* key of the row, which is the newest, and no other step lets a call through.
LEMMA StepDecides ==
  ASSUME NewestInv, [Next]_vars, NEW q \in Caller, row.state = "live",
         calls[q].pc = "idle", calls'[q].pc # "idle"
  PROVE calls'[q].pc = "no_key" <=> calls'[q].key # newest["api_key"]
<1>1. TypeOK /\ values = newest /\ calls \in [Caller -> KbCall]
  BY DEF NewestInv, NewestAccepted, TypeOK
<1>2. calls' # calls
  OBVIOUS
<1>3. ~Restart
  BY DEF Restart, NoCall
<1>4. PICK p \in Caller : \/ KbCallAnswered(p)
                         \/ \E key \in 0 .. MaxChange : KbCallAsked(p, key)
  BY <1>2, <1>3 DEF Next, vars, CreateContext, ProvisionTaken, Provisioned, ProvisionFails,
                    RebuildContext, RebuildTaken, Rebuilt, RebuildFails, Edit, EditTaken,
                    EditLost, DeleteContext, DeleteTaken, DeleteLost, RowDeleted
<1>5. ~KbCallAnswered(p)
  BY <1>1 DEF KbCallAnswered, NoCall
<1>6. PICK key \in 0 .. MaxChange : KbCallAsked(p, key)
  BY <1>4, <1>5
<1>7. p = q
  BY <1>1, <1>6 DEF KbCallAsked
<1>8. calls'[q].key = key
      /\ (calls'[q].pc = "no_key" <=> ~Authenticates(key))
  BY <1>1, <1>6, <1>7 DEF KbCallAsked
<1> QED
  BY <1>1, <1>8 DEF Authenticates

THEOREM OnlyNewestKeyTaken == ASSUME "edits_early" \notin Habits PROVE Spec => KeyDecides
<1>1. NewestInv /\ [Next]_vars
        => [\A q \in Caller :
              row.state = "live" /\ calls[q].pc = "idle" /\ calls'[q].pc # "idle"
                => (calls'[q].pc = "no_key" <=> calls'[q].key # newest["api_key"])]_vars
  BY StepDecides
<1> QED
  BY <1>1, NewestInvariant, PTL DEF Spec, KeyDecides

-----------------------------------------------------------------------------
(* Row and registry *)

\* Nothing but the given rebuilds and edits is under way.
Only(bs, rs) == /\ prov.pc = "idle" /\ del = "idle"
                /\ \A b \in Rebuilder \ bs : reb[b].pc = "idle"
                /\ \A r \in Editor \ rs : edit[r].pc = "idle"

Placed == row.state = "live" /\ row.hosted
Copied == registry = [present |-> TRUE, values |-> values]

\* What a context is in while requests follow one another and every call arrives: one
\* thing is under way, and it carries what the row has.
AtRest == \/ Quiet /\ row.state \in {"none", "deleted"} /\ ~registry.present
          \/ Quiet /\ Placed /\ Copied
BeingProvisioned == /\ prov.pc # "idle" /\ del = "idle" /\ row.state = "live"
                    /\ \A b \in Rebuilder : reb[b].pc = "idle"
                    /\ \A r \in Editor : edit[r].pc = "idle"
                    /\ prov.captured = values /\ (prov.pc = "answer" => Copied)
BeingRebuilt == \E b \in Rebuilder : /\ reb[b].pc # "idle" /\ Only({b}, {})
                                    /\ reb[b].captured = values /\ Placed /\ Copied
BeingEdited ==
  \E r \in Editor : /\ edit[r].pc = "master" /\ Only({}, {r})
                    /\ Placed /\ registry.present
                    /\ values = [registry.values EXCEPT ![edit[r].field] = edit[r].version]
BeingDeleted == /\ del # "idle" /\ prov.pc = "idle" /\ Placed
                /\ \A b \in Rebuilder : reb[b].pc = "idle"
                /\ \A r \in Editor : edit[r].pc = "idle"
                /\ del = "row" => ~registry.present

Serial == AtRest \/ BeingProvisioned \/ BeingRebuilt \/ BeingEdited \/ BeingDeleted

SerialInv == TypeOK /\ (~disturbed => Serial)

\* A disturbance is for ever (Asked, Disturbs, Restart).
LEMMA StaysDisturbed ==
  ASSUME TypeOK, [Next]_vars, ~disturbed' PROVE ~disturbed
  BY DEF TypeOK, Next, vars, Asked, Disturbs, CreateContext, ProvisionTaken, Provisioned,
         ProvisionFails, RebuildContext, RebuildTaken, Rebuilt, RebuildFails, Edit, EditTaken,
         EditLost, DeleteContext, DeleteTaken, DeleteLost, RowDeleted, Restart, KbCallAsked,
         KbCallAnswered

\* Provisioning leaves the master with what the row has (_provision_bg).
LEMMA ProvisionSerial ==
  ASSUME TypeOK, Serial, CreateContext \/ ProvisionTaken \/ Provisioned PROVE Serial'
<1>1. CASE CreateContext
  <2>1. Quiet
    BY <1>1 DEF CreateContext, Serial, AtRest, BeingProvisioned, BeingRebuilt, BeingEdited,
                BeingDeleted, Placed
  <2>2. BeingProvisioned'
    BY <1>1, <2>1 DEF CreateContext, Quiet, BeingProvisioned, TypeOK
  <2> QED
    BY <2>2 DEF Serial
<1>2. ASSUME prov.pc # "idle" PROVE BeingProvisioned
  BY <1>2 DEF Serial, AtRest, Quiet, BeingRebuilt, BeingEdited, BeingDeleted, Only
<1>3. CASE ProvisionTaken
  <2>1. BeingProvisioned
    BY <1>2, <1>3 DEF ProvisionTaken
  <2>2. prov'.pc = "answer" /\ prov'.captured = values' /\ Copied'
    BY <1>3, <2>1 DEF ProvisionTaken, Started, BeingProvisioned, Copied, TypeOK, CallTask
  <2>3. BeingProvisioned'
    BY <1>3, <2>1, <2>2 DEF ProvisionTaken, BeingProvisioned
  <2> QED
    BY <2>3 DEF Serial
<1>4. CASE Provisioned
  <2>1. BeingProvisioned /\ Copied
    BY <1>2, <1>4 DEF Provisioned, BeingProvisioned
  <2>2. values' = [values EXCEPT !["api_key"] = values["api_key"]]
        /\ row' = [row EXCEPT !.hosted = TRUE]
    BY <1>4, <2>1 DEF Provisioned, BeingProvisioned
  <2>3. values' = values /\ Placed'
    BY <2>1, <2>2 DEF TypeOK, Values, Placed, BeingProvisioned
  <2>4. Quiet' /\ Copied'
    BY <1>4, <2>1, <2>3 DEF Provisioned, BeingProvisioned, Quiet, Copied, IdleCall
  <2> QED
    BY <2>3, <2>4 DEF Serial, AtRest
<1> QED
  BY <1>1, <1>3, <1>4

\* So does rebuilding, whether it succeeds or fails (_rebuild_bg).
LEMMA RebuildSerial ==
  ASSUME TypeOK, Serial, ~disturbed', NEW b \in Rebuilder,
         RebuildContext(b) \/ RebuildTaken(b) \/ Rebuilt(b) \/ RebuildFails(b)
  PROVE Serial'
<1>1. CASE RebuildContext(b)
  <2>1. Quiet /\ Placed /\ Copied
    BY <1>1 DEF RebuildContext, Asked, Serial, AtRest, BeingProvisioned, BeingRebuilt,
                BeingEdited, BeingDeleted, Only, Quiet, Placed
  <2>2. reb'[b].pc = "master" /\ reb'[b].captured = values'
        /\ \A c \in Rebuilder : c # b => reb'[c] = reb[c]
    BY <1>1 DEF RebuildContext, TypeOK
  <2>3. BeingRebuilt'
    BY <1>1, <2>1, <2>2 DEF RebuildContext, BeingRebuilt, Only, Quiet, Placed, Copied
  <2> QED
    BY <2>3 DEF Serial
<1>2. ASSUME reb[b].pc # "idle"
      PROVE Only({b}, {}) /\ reb[b].captured = values /\ Placed /\ Copied
  BY <1>2 DEF Serial, AtRest, Quiet, BeingProvisioned, BeingRebuilt, BeingEdited, BeingDeleted,
              Only
<1>3. CASE RebuildTaken(b)
  <2>1. Only({b}, {}) /\ reb[b].captured = values /\ Placed
    BY <1>2, <1>3 DEF RebuildTaken
  <2>2. /\ reb'[b].pc = "answer" /\ reb'[b].captured = reb[b].captured
        /\ \A c \in Rebuilder : c # b => reb'[c] = reb[c]
    BY <1>3 DEF RebuildTaken, TypeOK, CallTask
  <2>3. Copied' /\ Placed'
    BY <1>3, <2>1 DEF RebuildTaken, Started, Copied, Placed
  <2>4. BeingRebuilt'
    BY <1>3, <2>1, <2>2, <2>3 DEF RebuildTaken, BeingRebuilt, Only
  <2> QED
    BY <2>4 DEF Serial
<1>4. CASE Rebuilt(b) \/ RebuildFails(b)
  <2>1. reb[b].pc # "idle"
    BY <1>4 DEF Rebuilt, RebuildFails
  <2>2. Only({b}, {}) /\ Placed /\ Copied
    BY <1>2, <2>1
  <2>3. \A c \in Rebuilder : reb'[c] = IF c = b THEN IdleCall ELSE reb[c]
    BY <1>4 DEF Rebuilt, RebuildFails, TypeOK
  <2>4. Quiet' /\ Placed' /\ Copied'
    BY <1>4, <2>2, <2>3 DEF Rebuilt, RebuildFails, Only, Quiet, Placed, Copied, IdleCall
  <2> QED
    BY <2>4 DEF Serial, AtRest
<1> QED
  BY <1>1, <1>3, <1>4

\* The master follows an edit of the row (rename_context, regenerate_api_key).
LEMMA EditSerial ==
  ASSUME TypeOK, Serial, ~disturbed', NEW r \in Editor,
         EditTaken(r) \/ EditLost(r) \/ \E f \in Field : Edit(r, f)
  PROVE Serial'
<1>1. ASSUME NEW f \in Field, Edit(r, f) PROVE Serial'
  <2>1. Quiet /\ Placed /\ Copied
    BY <1>1 DEF Edit, Asked, Serial, AtRest, BeingProvisioned, BeingRebuilt,
                BeingEdited, BeingDeleted, Only, Quiet, Placed
  <2>2. /\ edit'[r].pc = "master" /\ edit'[r].field = f /\ edit'[r].version = newest[f] + 1
        /\ \A q \in Editor : q # r => edit'[q] = edit[q]
    BY <1>1, <2>1 DEF Edit, TypeOK, Placed
  <2>3. registry'.present /\ registry'.values = values
        /\ values' = [values EXCEPT ![f] = newest[f] + 1]
    BY <1>1, <2>1 DEF Edit, Copied
  <2>4. Only({}, {r})' /\ Placed'
    BY <1>1, <2>1, <2>2 DEF Edit, Only, Quiet, Placed
  <2>5. values' = [registry'.values EXCEPT ![edit'[r].field] = edit'[r].version]
    BY <2>2, <2>3
  <2>6. BeingEdited'
    BY <2>2, <2>3, <2>4, <2>5 DEF BeingEdited
  <2> QED
    BY <2>6 DEF Serial
<1>2. CASE EditTaken(r)
  <2>1. /\ Only({}, {r}) /\ Placed /\ registry.present
        /\ values = [registry.values EXCEPT ![edit[r].field] = edit[r].version]
    BY <1>2 DEF EditTaken, Serial, AtRest, Quiet, BeingProvisioned, BeingRebuilt, BeingEdited,
                BeingDeleted, Only
  <2>2. \A q \in Editor : edit'[q] = IF q = r THEN IdleEdit ELSE edit[q]
    BY <1>2 DEF EditTaken, TypeOK
  <2>3. registry' = [registry EXCEPT !.values[edit[r].field] = edit[r].version]
    BY <1>2, <2>1 DEF EditTaken
  <2>4. registry' = [present |-> TRUE, values |-> values]
    BY <2>1, <2>3 DEF TypeOK
  <2>5. UNCHANGED <<row, values, prov, reb, del>>
    BY <1>2 DEF EditTaken
  <2>6. Quiet'
    BY <2>1, <2>2, <2>5 DEF Only, Quiet, IdleEdit
  <2>7. Placed' /\ Copied'
    BY <2>1, <2>4, <2>5 DEF Placed, Copied
  <2> QED
    BY <2>6, <2>7 DEF Serial, AtRest
<1>3. ~EditLost(r)
  BY DEF EditLost, Disturbs
<1> QED
  BY <1>1, <1>2, <1>3

\* A delete takes the container and then the row (delete_context).
LEMMA DeleteSerial ==
  ASSUME TypeOK, Serial, ~disturbed',
         DeleteContext \/ DeleteTaken \/ DeleteLost \/ RowDeleted
  PROVE Serial'
<1>1. CASE DeleteContext
  <2>1. Quiet /\ Placed
    BY <1>1 DEF DeleteContext, Asked, Serial, AtRest, BeingProvisioned, BeingRebuilt,
                BeingEdited, BeingDeleted, Only, Quiet, Placed
  <2>2. BeingDeleted'
    BY <1>1, <2>1 DEF DeleteContext, BeingDeleted, Quiet, Placed
  <2> QED
    BY <2>2 DEF Serial
<1>2. ASSUME del # "idle" PROVE BeingDeleted
  BY <1>2 DEF Serial, AtRest, Quiet, BeingProvisioned, BeingRebuilt, BeingEdited, Only
<1>3. CASE DeleteTaken
  <2>1. BeingDeleted
    BY <1>2, <1>3 DEF DeleteTaken
  <2>2. BeingDeleted'
    BY <1>3, <2>1 DEF DeleteTaken, BeingDeleted, Placed, TypeOK
  <2> QED
    BY <2>2 DEF Serial
<1>4. ~DeleteLost
  BY DEF DeleteLost, Disturbs
<1>5. CASE RowDeleted
  <2>1. BeingDeleted /\ ~registry.present
    BY <1>2, <1>5 DEF RowDeleted, BeingDeleted
  <2>2. Quiet' /\ row'.state = "deleted" /\ ~registry'.present
    BY <1>5, <2>1 DEF RowDeleted, BeingDeleted, Quiet, TypeOK
  <2> QED
    BY <2>2 DEF Serial, AtRest
<1> QED
  BY <1>1, <1>3, <1>4, <1>5

\* Nothing else moves a context: a restart disturbs what is under way, and a call of the
\* REST API changes nothing.
LEMMA OtherSerial ==
  ASSUME TypeOK, Serial, ~disturbed',
         \/ Restart \/ UNCHANGED vars
         \/ \E q \in Caller : \/ KbCallAnswered(q)
                              \/ \E key \in 0 .. MaxChange : KbCallAsked(q, key)
  PROVE Serial'
<1>1. CASE Restart
  <2>1. Quiet
    BY <1>1 DEF Restart
  <2>2. AtRest
    BY <2>1 DEF Serial, Quiet, AtRest, BeingProvisioned, BeingRebuilt, BeingEdited, BeingDeleted
  <2>3. Quiet'
    BY <1>1 DEF Restart, Quiet, IdleCall, IdleEdit
  <2> QED
    BY <1>1, <2>2, <2>3 DEF Restart, Serial, AtRest, Placed, Copied
<1>2. CASE UNCHANGED <<row, values, registry, prov, reb, edit, del>>
  <2>1. AtRest => AtRest'
    BY <1>2 DEF AtRest, Quiet, Placed, Copied
  <2>2. BeingProvisioned => BeingProvisioned'
    BY <1>2 DEF BeingProvisioned, Copied
  <2>3. BeingRebuilt => BeingRebuilt'
    BY <1>2 DEF BeingRebuilt, Only, Placed, Copied
  <2>4. BeingEdited => BeingEdited'
    BY <1>2 DEF BeingEdited, Only, Placed
  <2>5. BeingDeleted => BeingDeleted'
    BY <1>2 DEF BeingDeleted, Placed
  <2> QED
    BY <2>1, <2>2, <2>3, <2>4, <2>5 DEF Serial
<1> QED
  BY <1>1, <1>2 DEF vars, KbCallAnswered, KbCallAsked

\* In every state, unless a call was lost or cut off or requests overlapped, one thing
\* at a time is under way and it carries the values of the row.
LEMMA SerialAlways == Spec => []SerialInv
<1>1. Init => SerialInv
  <2>1. Init => TypeOK
    BY InitNewest DEF NewestInv
  <2>2. Init => AtRest
    BY DEF Init, AtRest, Quiet, IdleCall, IdleEdit
  <2> QED
    BY <2>1, <2>2 DEF SerialInv, Serial
<1>2. SerialInv /\ [Next]_vars => SerialInv'
  <2> SUFFICES ASSUME SerialInv, [Next]_vars PROVE SerialInv'
    OBVIOUS
  <2>1. TypeOK /\ TypeOK'
    BY StepType DEF SerialInv
  <2>2. ASSUME ~disturbed' PROVE Serial'
    <3>1. Serial
      BY <2>1, <2>2, StaysDisturbed DEF SerialInv
    <3>2. ~ProvisionFails
      BY <2>2 DEF ProvisionFails, Disturbs
    <3> QED
      BY <2>1, <2>2, <3>1, <3>2, ProvisionSerial, RebuildSerial, EditSerial, DeleteSerial,
         OtherSerial DEF Next
  <2> QED
    BY <2>1, <2>2 DEF SerialInv
<1> QED
  BY <1>1, <1>2, PTL DEF Spec

\* The master's registry "keeps matching" the row (_rebuild_bg, regenerate_api_key,
\* rename_context), as long as requests follow one another and no call is lost.
THEOREM RegistryFollows == Spec => []RegistryAgrees
<1>1. SerialInv => RegistryAgrees
  BY DEF SerialInv, Serial, AtRest, BeingProvisioned, BeingRebuilt, BeingEdited, BeingDeleted,
         Quiet, Placed, Copied, RegistryAgrees
<1> QED
  BY <1>1, SerialAlways, PTL

\* And a context that was deleted has no container (delete_context).
THEOREM ContainerGoesToo == Spec => []DeletedIsGone
<1>1. SerialInv => DeletedIsGone
  BY DEF SerialInv, Serial, AtRest, BeingProvisioned, BeingRebuilt, BeingEdited, BeingDeleted,
         Quiet, Placed, DeletedIsGone
<1> QED
  BY <1>1, SerialAlways, PTL
=============================================================================
