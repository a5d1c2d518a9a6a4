---------------------------- MODULE ConfigProofs ----------------------------
(***************************************************************************)
(* Theorems about Config for any number of devices, writes and failures.   *)
(***************************************************************************)
EXTENDS Config, TLAPS

USE ConfigAssumption

\* A call under way carries a configuration.
TypeInv ==
    /\ TypeOK
    /\ \A d \in Device : /\ push[d].pc # "idle" => push[d].cfg # NULL
                         /\ pull[d].pc # "idle" => pull[d].cfg # NULL

\* Whatever a device may send has the empty tag or one it got from the
\* server, whose row never has the empty tag.
Known(d, cfg) == cfg.tag = 0 \/ cfg.tag \in got[d]

SeenInv ==
    /\ row.tag # 0
    /\ \A d \in Device :
         /\ local[d] # NULL => Known(d, local[d])
         /\ form[d] # NULL => Known(d, form[d])
         /\ push[d].pc \in {"read", "swap"} => Known(d, push[d].cfg)

LEMMA Bounds == MaxTag \in Nat /\ 0 < MaxTag /\ MaxFail \in Nat
  BY SMT

LEMMA InitType == Init => TypeInv
  <1> SUFFICES ASSUME Init PROVE TypeInv
    OBVIOUS
  <1>1. row \in Cfg /\ fails \in 0..MaxFail
    BY Bounds DEF Init, Cfg
  <1>2. \A d \in Device : push[d] = NoPush /\ pull[d] = NoPull
    BY DEF Init
  <1> QED
    BY <1>1, <1>2 DEF Init, TypeInv, TypeOK, NoPush, NoPull

LEMMA NextType == TypeInv /\ [Next]_vars => TypeInv'
  <1> SUFFICES ASSUME TypeInv, [Next]_vars PROVE TypeInv'
    OBVIOUS
  <1> USE DEF TypeInv, TypeOK
  <1>1. ASSUME NEW d \in Device, OpenSettings(d) PROVE TypeInv'
    <2>1. [tag |-> 0, data |-> Default] \in Cfg
      BY Bounds DEF Cfg
    <2> QED
      BY <1>1, <2>1 DEF OpenSettings
  <1>2. ASSUME NEW d \in Device, NEW x \in Data, SaveSettings(d, x)
        PROVE  TypeInv'
    <2> DEFINE cfg == [form[d] EXCEPT !.data = x]
    <2>1. cfg \in Cfg
      <3>1. form[d] \in Cfg
        BY <1>2 DEF SaveSettings
      <3> QED
        BY <3>1 DEF Cfg
    <2>2. /\ form' = [form EXCEPT ![d] = cfg]
          /\ local' = [local EXCEPT ![d] = cfg]
          /\ push' = [push EXCEPT ![d] = [pc |-> "read", cfg |-> cfg]]
      BY <1>2 DEF SaveSettings
    <2> HIDE DEF cfg
    <2>3. [pc |-> "read", cfg |-> cfg] \in
            [pc : {"idle", "read", "swap", "adopt"}, cfg : Cfg \cup {NULL}]
      BY <2>1
    <2>4. /\ form' \in [Device -> Cfg \cup {NULL}]
          /\ local' \in [Device -> Cfg \cup {NULL}]
          /\ push' \in [Device -> [pc : {"idle", "read", "swap", "adopt"},
                                   cfg : Cfg \cup {NULL}]]
          /\ \A e \in Device : push'[e].pc # "idle" => push'[e].cfg # NULL
      BY <2>1, <2>2, <2>3
    <2> QED
      BY <1>2, <2>4 DEF SaveSettings
  <1>3. ASSUME NEW d \in Device, PutRead(d) PROVE TypeInv'
    BY <1>3 DEF PutRead, NoPush
  <1>4. ASSUME NEW data \in Data, NEW by \in Device \cup {NULL},
               StoreRow(data, by)
        PROVE  row' \in Cfg /\ writer' \in Device \cup {NULL}
               /\ notice' \subseteq Device
    BY <1>4, Bounds DEF StoreRow, Cfg
  <1>5. ASSUME NEW d \in Device, PutSwap(d) PROVE TypeInv'
    <2>1. push[d].cfg.data \in Data
      BY <1>5 DEF PutSwap, Cfg
    <2>2. /\ row' \in Cfg /\ writer' \in Device \cup {NULL}
          /\ notice' \subseteq Device
      BY <1>4, <1>5, <2>1 DEF PutSwap
    <2> QED
      BY <1>5, <2>2 DEF PutSwap
  <1>6. ASSUME NEW d \in Device, PutSwapLost(d) PROVE TypeInv'
    BY <1>6 DEF PutSwapLost, NoPush
  <1>7. ASSUME NEW d \in Device, PutAdopt(d) PROVE TypeInv'
    <2>1. push[d].cfg \in Cfg /\ push[d].cfg.tag \in 0..MaxTag
      BY <1>7 DEF PutAdopt, Cfg
    <2> QED
      BY <1>7, <2>1 DEF PutAdopt, NoPush
  <1>8. ASSUME NEW d \in Device, PutFails(d) PROVE TypeInv'
    BY <1>8, Bounds DEF PutFails, NoPush
  <1>9. ASSUME NEW d \in Device, PullRead(d) PROVE TypeInv'
    BY <1>9 DEF PullRead
  <1>10. ASSUME NEW d \in Device, PullStore(d) PROVE TypeInv'
    <2>1. pull[d].cfg \in Cfg /\ pull[d].cfg.tag \in 0..MaxTag
      BY <1>10 DEF PullStore, Cfg
    <2> QED
      BY <1>10, <2>1 DEF PullStore, NoPull
  <1>11. ASSUME NEW d \in Device, PullFails(d) PROVE TypeInv'
    BY <1>11, Bounds DEF PullFails
  <1>12. ASSUME NEW x \in Data, OtherClientPut(x) PROVE TypeInv'
    BY <1>4, <1>12 DEF OtherClientPut
  <1>13. CASE UNCHANGED vars
    BY <1>13 DEF vars
  <1> QED
    BY <1>1, <1>2, <1>3, <1>5, <1>6, <1>7, <1>8, <1>9, <1>10, <1>11, <1>12,
       <1>13 DEF Next

\* Every reachable state is well typed: among others, every call under way
\* and every copy carries a tag some write minted.
THEOREM TypeCorrect == Spec => []TypeOK
  <1>1. TypeInv => TypeOK
    BY DEF TypeInv
  <1> QED
    BY <1>1, InitType, NextType, PTL DEF Spec

-----------------------------------------------------------------------------
LEMMA NextSeen == TypeInv /\ SeenInv /\ [Next]_vars => SeenInv'
  <1> SUFFICES ASSUME TypeInv, SeenInv, [Next]_vars PROVE SeenInv'
    OBVIOUS
  <1> USE DEF TypeInv, TypeOK, SeenInv, Known
  <1>1. ASSUME NEW d \in Device, OpenSettings(d) PROVE SeenInv'
    BY <1>1 DEF OpenSettings
  <1>2. ASSUME NEW d \in Device, NEW x \in Data, SaveSettings(d, x)
        PROVE  SeenInv'
    <2> DEFINE cfg == [form[d] EXCEPT !.data = x]
    <2>1. cfg.tag = form[d].tag /\ form[d] # NULL
      BY <1>2 DEF SaveSettings, Cfg
    <2>2. /\ form' = [form EXCEPT ![d] = cfg]
          /\ local' = [local EXCEPT ![d] = cfg]
          /\ push' = [push EXCEPT ![d] = [pc |-> "read", cfg |-> cfg]]
      BY <1>2 DEF SaveSettings
    <2> HIDE DEF cfg
    <2> QED
      BY <1>2, <2>1, <2>2 DEF SaveSettings
  <1>3. ASSUME NEW d \in Device, PutRead(d) PROVE SeenInv'
    BY <1>3 DEF PutRead, NoPush
  <1>4. ASSUME NEW data, NEW by, StoreRow(data, by) PROVE row'.tag # 0
    BY <1>4, Bounds DEF StoreRow, Cfg
  <1>5. ASSUME NEW d \in Device, PutSwap(d) PROVE SeenInv'
    BY <1>4, <1>5 DEF PutSwap
  <1>6. ASSUME NEW d \in Device, PutSwapLost(d) PROVE SeenInv'
    BY <1>6 DEF PutSwapLost, NoPush
  <1>7. ASSUME NEW d \in Device, PutAdopt(d) PROVE SeenInv'
    BY <1>7 DEF PutAdopt, NoPush
  <1>8. ASSUME NEW d \in Device, PutFails(d) PROVE SeenInv'
    BY <1>8 DEF PutFails, NoPush
  <1>9. ASSUME NEW d \in Device, PullRead(d) \/ PullFails(d) PROVE SeenInv'
    BY <1>9 DEF PullRead, PullFails
  <1>10. ASSUME NEW d \in Device, PullStore(d) PROVE SeenInv'
    BY <1>10 DEF PullStore, NoPull
  <1>11. ASSUME NEW x \in Data, OtherClientPut(x) PROVE SeenInv'
    BY <1>4, <1>11 DEF OtherClientPut
  <1>12. CASE UNCHANGED vars
    BY <1>12 DEF vars
  <1> QED
    BY <1>1, <1>2, <1>3, <1>5, <1>6, <1>7, <1>8, <1>9, <1>10, <1>11, <1>12
       DEF Next

\* Only PutSwap writes in the name of a device, under the stored tag.
LEMMA WritesSeen ==
  TypeInv /\ SeenInv /\ [Next]_vars =>
    [\A d \in Device : row' # row /\ writer' = d => row.tag \in got[d]]_vars
  <1> SUFFICES ASSUME TypeInv, SeenInv, Next, NEW d \in Device,
                      row' # row, writer' = d
               PROVE  row.tag \in got[d]
    OBVIOUS
  <1>1. PICK e \in Device : PutSwap(e)
    <2>1. \A x \in Data : ~OtherClientPut(x)
      BY DEF OtherClientPut, StoreRow
    <2> QED
      BY <2>1 DEF Next, OpenSettings, SaveSettings, PutRead, PutSwapLost,
                  PutAdopt, PutFails, PullRead, PullStore, PullFails
  <1>2. e = d
    BY <1>1 DEF PutSwap, StoreRow
  <1> QED
    BY <1>1, <1>2 DEF PutSwap, SeenInv, Known

\* However forms, copies, pulls and the two halves of concurrent PUTs
\* interleave and fail, a daemon only ever replaces a configuration it has
\* received (put_config, update_config, pull_config).
THEOREM NoBlindOverwriteHolds == Spec => NoBlindOverwrite
  <1>1. Init => SeenInv
    BY DEF Init, SeenInv, NoPush
  <1> QED
    BY <1>1, InitType, NextType, NextSeen, WritesSeen, PTL
       DEF Spec, NoBlindOverwrite

=============================================================================
