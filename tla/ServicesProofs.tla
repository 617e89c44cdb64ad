---------------------------- MODULE ServicesProofs -----------------------------
(***************************************************************************)
(* The ten components of MCServices under one specification: whichever of  *)
(* them a behaviour moves, all of them keep what they promise.             *)
(***************************************************************************)
EXTENDS MCServices, TaskLifecycleProofs, QuantDailyProofs, ServiceProofs

LEMMA EachService ==
    ServicesSpec => /\ Spec /\ DailySpec /\ RelSpec /\ NoiseSpec /\ CnSpec /\ PfSpec /\ SyncSpec
                    /\ ConfirmSpec /\ PreviewSpec /\ LLMSpec
<1>1. ServicesInit => /\ Init /\ DailyInit /\ RelInit /\ NoiseInit /\ CnInit /\ PfInit /\ SyncInit
                      /\ ConfirmInit /\ PreviewInit /\ LLMInit
      BY DEF ServicesInit
<1>2. [ServicesNext]_servicesVars =>
        /\ [Next]_vars /\ [DailyNext]_dailyVars /\ [RelNext]_relVars /\ [NoiseNext]_noiseVars
        /\ [CnNext]_cnVars /\ [PfNext]_pfVars /\ [SyncNext]_syncVars /\ [ConfirmNext]_confirmVars
        /\ [PreviewNext]_previewVars /\ [LLMNext]_llmVars
      BY DEF ServicesNext, servicesVars
<1>3. ServicesSpec => Spec /\ DailySpec /\ RelSpec
      BY <1>1, <1>2, PTL DEF ServicesSpec, Spec, DailySpec, RelSpec
<1>4. ServicesSpec => NoiseSpec /\ CnSpec /\ PfSpec
      BY <1>1, <1>2, PTL DEF ServicesSpec, NoiseSpec, CnSpec, PfSpec
<1>5. ServicesSpec => SyncSpec /\ ConfirmSpec
      BY <1>1, <1>2, PTL DEF ServicesSpec, SyncSpec, ConfirmSpec
<1>6. ServicesSpec => PreviewSpec /\ LLMSpec
      BY <1>1, <1>2, PTL DEF ServicesSpec, PreviewSpec, LLMSpec
<1> QED BY <1>3, <1>4, <1>5, <1>6

(* The state of every component is well typed.                             *)
THEOREM ServicesTyping == ServicesSpec => []ServicesTypeOK
<1>1. ServicesInit => focus \in Components
      BY DEF ServicesInit, Components
<1>2. focus \in Components /\ [ServicesNext]_servicesVars => (focus \in Components)'
      BY DEF ServicesNext, servicesVars
<1>3. ServicesSpec => [](focus \in Components)
      BY <1>1, <1>2, PTL DEF ServicesSpec
<1>4. RelSpec => []RelTypeOK
  <2>1. RelInv => RelTypeOK
        BY DEF RelInv
  <2> QED BY <2>1, RelInvInit, RelInvNext, PTL DEF RelSpec
<1>5. NoiseSpec => []NoiseTypeOK
  <2>1. NoiseInv => NoiseTypeOK
        BY DEF NoiseInv
  <2> QED BY <2>1, NoiseStarts, NoiseKept, PTL DEF NoiseSpec
<1>6. CnSpec => []CnTypeOK
  <2>1. CnInv => CnTypeOK
        BY DEF CnInv
  <2> QED BY <2>1, CnStarts, CnKept, PTL DEF CnSpec
<1>7. PfSpec => []PfTypeOK
  <2> QED BY PfTyping, PfStarts, PfKept, LotsStart, LotsKept, PTL DEF PfSpec
<1>8. SyncSpec => []SyncTypeOK
  <2>1. SyncInv => SyncTypeOK
        BY DEF SyncInv
  <2>2. SyncInit => SyncInv
        BY SyncStart
  <2>3. SyncInv /\ [SyncNext]_syncVars => SyncInv'
        BY SyncStep
  <2> QED BY <2>1, <2>2, <2>3, PTL DEF SyncSpec
<1>9. ConfirmSpec => []ConfirmTypeOK
  <2>1. ConfirmInv => ConfirmTypeOK
        BY DEF ConfirmInv
  <2> QED BY <2>1, ConfirmStarts, ConfirmKept, PTL DEF ConfirmSpec
<1>10. PreviewSpec => []PreviewTypeOK
  <2>1. PreviewInv => PreviewTypeOK
        BY DEF PreviewInv
  <2> QED BY <2>1, PreviewStarts, PreviewKept, PTL DEF PreviewSpec
<1>11. LLMSpec => []LLMTypeOK
  <2>1. LLMInv => LLMTypeOK
        BY DEF LLMInv
  <2> QED BY <2>1, LLMStarts, LLMKept, PTL DEF LLMSpec
<1>12. /\ focus \in Components
       /\ TypeOK /\ DailyTypeOK /\ RelTypeOK /\ NoiseTypeOK /\ CnTypeOK /\ PfTypeOK
       /\ SyncTypeOK /\ ConfirmTypeOK /\ PreviewTypeOK /\ LLMTypeOK
       => ServicesTypeOK
      BY DEF Components, ServicesTypeOK
<1> QED BY EachService, Typing, DailyTyping, <1>3, <1>4, <1>5, <1>6, <1>7, <1>8, <1>9, <1>10, <1>11,
           <1>12, PTL

(* Each component keeps what its own theorems say.                         *)
THEOREM ServicesAreSound ==
    ServicesSpec => /\ [](NoOverlap /\ OneLivePerDate /\ ReleasesAreKept /\ NoiseIsControlled)
                    /\ [](WindowsAreOwned /\ LedgerAgrees /\ DocumentIsHistory /\ OnePublication /\ FallsBackInOrder)
                    /\ SerialLedger /\ HistoryIsSound
BY EachService, MutualExclusion, OneLive, ReleasesKept, NoiseControlled, WindowsOwned,
   DocumentFollowsHistory, PreviewsAreWhole, FallbackInOrder, BookedOneByOne, LotsAddUp, HistoryKept, PTL
=============================================================================
