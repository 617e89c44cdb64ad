----------------------------- MODULE MCServices -----------------------------
(* Instances for TLC of the components of which safety alone is checked.   *)
(* They share no state and do not meet: a behaviour moves one of them.     *)
EXTENDS TaskLifecycle, QuantDaily, QuantReleases, NoiseControl, CnFeed, Portfolio, DailySync,
        Confirmation, Previews, LLMClient, TLC

CONSTANTS a, b, lk,       \* two of beat's jobs on one advisory lock
          e1, e2,         \* two daily executions of one market and date
          cs1, cs2, ts1, ts2,
          n1, n2,         \* two failure reports: one dedup key, one channel
          dk, ck,
          b1, b1x, b1y, b2, s1, s2

VARIABLE focus \* the component of this behaviour

PairTasks    == {a, b}
LockNames    == a :> lk @@ b :> lk
NoRetries    == a :> 0 @@ b :> 0
WithOutcomes == {}

CrossRuns == {cs1, cs2}
TimeRuns  == {ts1, ts2}

SameDedup    == n1 :> dk @@ n2 :> dk
SameCooldown == n1 :> ck @@ n2 :> ck

(* b1x repeats the buy b1, b1y asks for something else under its id.       *)
Requests   == {b1, b1x, b1y, b2, s1, s2}
Ids        == b1 :> 1 @@ b1x :> 1 @@ b1y :> 1 @@ b2 :> 2 @@ s1 :> 3 @@ s2 :> 4
Kinds      == b1 :> "buy" @@ b1x :> "buy" @@ b1y :> "cash" @@ b2 :> "buy" @@ s1 :> "sell" @@ s2 :> "sell"
Quantities == b1 :> 2 @@ b1x :> 2 @@ b1y :> 3 @@ b2 :> 1 @@ s1 :> 1 @@ s2 :> 2
Times      == b1 :> 1 @@ b1x :> 1 @@ b1y :> 1 @@ b2 :> 2 @@ s1 :> 3 @@ s2 :> 3

(* One worker's clock runs ahead.                                          *)
Skews == a :> 0 @@ b :> 1

Components == {"tasks", "daily", "releases", "noise", "cn", "portfolio", "sync", "confirmation",
               "previews", "llm"}

ServicesInit ==
    /\ Init /\ DailyInit /\ RelInit /\ NoiseInit /\ CnInit /\ PfInit /\ SyncInit
    /\ ConfirmInit /\ PreviewInit /\ LLMInit
    /\ focus \in Components
    (* The choices of a component that does not move are made once.        *)
    /\ focus # "llm" => order = <<"cli", "api">> /\ configured = {} /\ ~prefer
    /\ focus # "sync" => dailyRows[1] = 0 /\ whole

ServicesNext ==
    /\ UNCHANGED focus
    /\ IF focus = "tasks"        THEN Next        ELSE UNCHANGED vars
    /\ IF focus = "daily"        THEN DailyNext   ELSE UNCHANGED dailyVars
    /\ IF focus = "releases"     THEN RelNext     ELSE UNCHANGED relVars
    /\ IF focus = "noise"        THEN NoiseNext   ELSE UNCHANGED noiseVars
    /\ IF focus = "cn"           THEN CnNext      ELSE UNCHANGED cnVars
    /\ IF focus = "portfolio"    THEN PfNext      ELSE UNCHANGED pfVars
    /\ IF focus = "sync"         THEN SyncNext    ELSE UNCHANGED syncVars
    /\ IF focus = "confirmation" THEN ConfirmNext ELSE UNCHANGED confirmVars
    /\ IF focus = "previews"     THEN PreviewNext ELSE UNCHANGED previewVars
    /\ IF focus = "llm"          THEN LLMNext     ELSE UNCHANGED llmVars

servicesVars == <<focus, vars, dailyVars, relVars, noiseVars, cnVars, pfVars, syncVars, confirmVars,
                  previewVars, llmVars>>

ServicesSpec == ServicesInit /\ [][ServicesNext]_servicesVars

ServicesTypeOK ==
    CASE focus = "tasks"        -> TypeOK
      [] focus = "daily"        -> DailyTypeOK
      [] focus = "releases"     -> RelTypeOK
      [] focus = "noise"        -> NoiseTypeOK
      [] focus = "cn"           -> CnTypeOK
      [] focus = "portfolio"    -> PfTypeOK
      [] focus = "sync"         -> SyncTypeOK
      [] focus = "confirmation" -> ConfirmTypeOK
      [] focus = "previews"     -> PreviewTypeOK
      [] focus = "llm"          -> LLMTypeOK
=============================================================================
