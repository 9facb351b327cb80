\* Two models, two envelopes in two deliveries, two boots, and every row a coordinator can present.
CONSTANTS
    Models = {"m1", "m2"}
    Selections <- MCSelections
    MaxEnvelopes = 2
    MaxContributors = 2
    MaxCalls = 2
    MaxBoots = 2
SPECIFICATION Spec
INVARIANTS AuthorizedIsSealed DoneIsUsable
PROPERTY SubmitEnds
\* A page that nobody clicks on has nothing to do.
CHECK_DEADLOCK FALSE
