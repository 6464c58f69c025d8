-------------------------- MODULE RecommendationForm --------------------------
(***************************************************************************)
(* The form that asks for a fee recommendation (ui RecommendationPanel.tsx *)
(* and its hook useRecommendation.ts). The options may be changed, and an  *)
(* older result be cleared, while a request is in flight; an answer shows  *)
(* whenever it comes, a failure leaves the older result beside its error.  *)
(***************************************************************************)
EXTENDS Naturals

CONSTANTS
    Confidences,    \* CONFIDENCE_OPTIONS
    Demands,        \* urgency and longest wait
    FirstDemand,    \* medium, one ledger
    MaxRequests     \* bound: requests between two loads of the page

ASSUME FormAssumption ==
    90 \in Confidences /\ FirstDemand \in Demands /\ MaxRequests \in Nat

VARIABLES
    stored,     \* what localStorage holds
    confidence, \* the chosen confidence
    demand,     \* the other options
    loading,
    error,      \* whether the form tells of a failure
    recommended, \* the request whose answer is shown, or Nothing
    unanswered, \* requests in flight
    asked       \* history: the last request since the page was loaded, or Nothing

formVars == <<stored, confidence, demand, loading, error, recommended, unanswered, asked>>

Request == [number : Nat \ {0}, confidence : Confidences, demand : Demands]
Nothing == [number |-> 0]
Unusable == 0

(* loadConfidence: anything else than one of the options counts for nothing. *)
Loaded(value) == IF value \in Confidences THEN value ELSE 90

(* Faulty: the choice is not saved. *)
ChooseForNow ==
    /\ \E c \in Confidences : confidence' = c
    /\ UNCHANGED <<stored, demand, loading, error, recommended, unanswered, asked>>

(* The buttons of the confidences: handleConfidenceChange. *)
ChooseConfidence ==
    /\ \E c \in Confidences : confidence' = c /\ stored' = c
    /\ UNCHANGED <<demand, loading, error, recommended, unanswered, asked>>

ChooseDemand ==
    /\ demand' \in Demands
    /\ UNCHANGED <<stored, confidence, loading, error, recommended, unanswered, asked>>

(* handleRecommend and recommend up to its await. *)
Submit ==
    /\ asked.number < MaxRequests
    /\ asked' = [number |-> asked.number + 1, confidence |-> confidence, demand |-> demand]
    /\ unanswered' = unanswered \cup {asked'}
    /\ loading' = TRUE
    /\ error' = FALSE
    /\ UNCHANGED <<stored, confidence, demand, recommended>>

(* Faulty: the button stays enabled. *)
SubmitAgain == Submit

(* The button, disabled while loading. *)
GetRecommendation == ~loading /\ Submit

(* recommend after its await. *)
Resolved ==
    /\ \E r \in unanswered :
          /\ unanswered' = unanswered \ {r}
          /\ \/ recommended' = r /\ UNCHANGED error
             \/ error' = TRUE /\ UNCHANGED recommended
    /\ loading' = FALSE
    /\ UNCHANGED <<stored, confidence, demand, asked>>

(* clear; the button is part of the result. *)
Clear ==
    /\ recommended # Nothing
    /\ recommended' = Nothing
    /\ error' = FALSE
    /\ UNCHANGED <<stored, confidence, demand, loading, unanswered, asked>>

(* The panel is mounted: its state is new but for what localStorage held. *)
Mounted ==
    /\ confidence' = Loaded(stored)
    /\ demand' = FirstDemand
    /\ loading' = FALSE /\ error' = FALSE
    /\ recommended' = Nothing /\ unanswered' = {} /\ asked' = Nothing
    /\ UNCHANGED stored

FormInit ==
    /\ stored \in Confidences \cup {Unusable}
    /\ confidence = Loaded(stored)
    /\ demand = FirstDemand
    /\ loading = FALSE /\ error = FALSE
    /\ recommended = Nothing /\ unanswered = {} /\ asked = Nothing

FormNext ==
    \/ ChooseConfidence \/ ChooseDemand \/ GetRecommendation \/ Resolved \/ Clear
    \/ Mounted

(* The server is gone: a request it had fails. *)
FormRefused ==
    /\ unanswered' = {}
    /\ loading' = FALSE
    /\ error' = (error \/ unanswered # {})
    /\ UNCHANGED <<stored, confidence, demand, recommended, asked>>

-----------------------------------------------------------------------------
(* Properties. *)

(* Type invariant. *)
FormTypeOK ==
    /\ stored \in Confidences \cup {Unusable} /\ confidence \in Confidences /\ demand \in Demands
    /\ loading \in BOOLEAN /\ error \in BOOLEAN
    /\ {recommended, asked} \subseteq Request \cup {Nothing} /\ unanswered \subseteq Request

(* A form at rest that tells of no failure shows the answer to the last       *)
(* request, or nothing; while it loads, and beside a failure, a result is of  *)
(* an older request. Clearing the result in flight or changing the options    *)
(* makes no exception. And the chosen confidence is the one the next load of  *)
(* the page will choose (RecommendationPanel.tsx:38, :45).                    *)
FormTells ==
    /\ ~loading /\ ~error => recommended \in {asked, Nothing}
    /\ loading \/ error => recommended.number < asked.number
    /\ confidence = Loaded(stored)
=============================================================================
