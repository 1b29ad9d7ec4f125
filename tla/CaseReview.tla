----------------------------- MODULE CaseReview -----------------------------
(***************************************************************************)
(* Reviews (builtin/case_review.go): a request asks for a review of the    *)
(* case, of a record or of a redaction version, and a reviewer other than  *)
(* whoever asked decides it, once.  The review of the case moves it.  A    *)
(* redaction version stands for the two kinds of subject that do not.      *)
(***************************************************************************)
EXTENDS CaseLedger

\* reviewSubjectOf: a case is reviewed as a manifest shows it, and the
\* manifest must name the lifecycle's present head.
ReviewSubject(s) == s = "case" => current

\* review_request.  One request is open at a time for one subject.
ReviewRequest(e, s) ==
    /\ Writes(e)
    /\ ~Refuses(life, "review")
    /\ s = "case" => life = "active"
    /\ ReviewSubject(s)
    /\ asked[s] = Nobody
    /\ asked' = [asked EXCEPT ![s] = e]
    /\ IF s = "case" THEN LifecycleFor(e, "in_review")
                     ELSE UNCHANGED <<life, copy, inStep, current, readable>>
    /\ UNCHANGED <<assigned, asker, approver, period, hold, erased, keyErased, item,
                   keyFile, store, role, hasKey, attached>>

\* Faulty variants of an operation carry its name and a suffix.  No
\* specification uses them: they show that the properties can fail.
\* This one lets whoever asked for a review decide it.
ReviewDecide_Own(e, s, approved) ==
    /\ Writes(e)
    /\ role[e] = "reviewer"
    /\ ~Refuses(life, "review")
    /\ asked[s] # Nobody
    /\ s = "case" => life = "in_review"
    /\ asked' = [asked EXCEPT ![s] = Nobody]
    /\ IF s = "case"
       THEN /\ LifecycleFor(e, IF approved THEN "concluded" ELSE "active")
            /\ asker' = IF approved THEN asked[s] ELSE Nobody
            /\ approver' = IF approved THEN e ELSE Nobody
       ELSE UNCHANGED <<life, copy, inStep, current, readable, asker, approver>>
    /\ UNCHANGED <<assigned, period, hold, erased, keyErased, item, keyFile, store,
                   role, hasKey, attached>>

\* review_decide.  A decision moves a case only from the review its request
\* put it in: while the case is in review no other request of it is open.
ReviewDecide(e, s, approved) ==
    /\ Writes(e)
    /\ role[e] = "reviewer"
    /\ ~Refuses(life, "review")
    /\ asked[s] \notin {Nobody, e}
    /\ s = "case" => life = "in_review"
    /\ asked' = [asked EXCEPT ![s] = Nobody]
    /\ IF s = "case"
       THEN /\ LifecycleFor(e, IF approved THEN "concluded" ELSE "active")
            /\ asker' = IF approved THEN asked[s] ELSE Nobody
            /\ approver' = IF approved THEN e ELSE Nobody
       ELSE UNCHANGED <<life, copy, inStep, current, readable, asker, approver>>
    /\ UNCHANGED <<assigned, period, hold, erased, keyErased, item, keyFile, store,
                   role, hasKey, attached>>
=============================================================================
