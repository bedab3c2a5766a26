--------------------------------- MODULE Api ---------------------------------
(***************************************************************************)
(* The parts of the API server side by side: agent tokens, one profile,    *)
(* folders, shared plans, the event search, the recommendations, the       *)
(* concierge and the history of an API key.  They read and write different *)
(* tables, so a property of one is not affected by a step of another; a    *)
(* behaviour exercises one part, and the parts it leaves alone stay in one *)
(* of their initial states.                                                *)
(***************************************************************************)
EXTENDS AgentTokens, Profile, Folders, SharedPlans, EventSearch, Recommendations,
        Concierge, KeySnapshots

VARIABLE part

Parts == {"tokens", "profile", "folders", "plans", "search", "recommendations", "concierge",
          "samples"}

apiVars == <<part, tokVars, proVars, folVars, plaVars, seaVars, recVars, conVars,
             snaVars>>

\* The part that moves starts anywhere it may, the others where nothing is there.
ApiInit ==
    /\ part \in Parts
    /\ part # "tokens" =>
         /\ token = [t \in Tokens |-> Absent]
         /\ registered = FALSE
    /\ TokensInit
    /\ part # "profile" => preferred = {}
    /\ ProfileInit
    /\ part # "folders" => owner = [f \in FolderIds |-> NoOne]
    /\ FoldersInit
    /\ PlansInit
    /\ part # "search" =>
         /\ start = [i \in Ids |-> 0]
         /\ key = CHOOSE q \in Queries : TRUE
    /\ SearchInit
    /\ part # "recommendations" =>
         /\ corpus = [i \in Candidates |-> [score |-> CHOOSE r \in RawScores : TRUE,
                        category |-> "", start |-> 1, matched |-> FALSE]]
         /\ limit = CHOOSE l \in Limits : TRUE
    /\ RecommendationsInit
    /\ part # "concierge" => listed = {} /\ mine = {}
    /\ ConciergeInit
    /\ SnapshotsInit

ApiNext ==
    \/ /\ part = "tokens"
       /\ TokensNext
       /\ UNCHANGED <<part, proVars, folVars, plaVars, seaVars, recVars, conVars, snaVars>>
    \/ /\ part = "profile"
       /\ ProfileNext
       /\ UNCHANGED <<part, tokVars, folVars, plaVars, seaVars, recVars, conVars, snaVars>>
    \/ /\ part = "folders"
       /\ FoldersNext
       /\ UNCHANGED <<part, tokVars, proVars, plaVars, seaVars, recVars, conVars, snaVars>>
    \/ /\ part = "plans"
       /\ PlansNext
       /\ UNCHANGED <<part, tokVars, proVars, folVars, seaVars, recVars, conVars, snaVars>>
    \/ /\ part = "search"
       /\ SearchNext
       /\ UNCHANGED <<part, tokVars, proVars, folVars, plaVars, recVars, conVars, snaVars>>
    \/ /\ part = "recommendations"
       /\ RecommendationsNext
       /\ UNCHANGED <<part, tokVars, proVars, folVars, plaVars, seaVars, conVars, snaVars>>
    \/ /\ part = "concierge"
       /\ ConciergeNext
       /\ UNCHANGED <<part, tokVars, proVars, folVars, plaVars, seaVars, recVars, snaVars>>
    \/ /\ part = "samples"
       /\ SnapshotsNext
       /\ UNCHANGED <<part, tokVars, proVars, folVars, plaVars, seaVars, recVars, conVars>>

ApiSpec == ApiInit /\ [][ApiNext]_apiVars
=============================================================================
