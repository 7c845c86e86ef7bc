-------------------------- MODULE SideChainProofs --------------------------
(***************************************************************************)
(* Theorems about SideChain for every value of its constants: any tree of  *)
(* blocks, any window, any number of worker threads.                       *)
(***************************************************************************)
EXTENDS SideChain, NaturalsInduction, WellFoundedInduction, FiniteSetTheorems, TLAPS

\* The mined data of a block has the types that Info declares
LEMMA InfoTypes ==
    ASSUME NEW b \in Block
    PROVE  /\ Parent(b) \in Block \cup {NoBlock}
           /\ Height(b) \in Nat /\ Height(b) \in 0 .. TopHeight
           /\ Info[b].next \in Nat
  <1>1. Info[b] \in InfoType
    BY ConstantsAssumption
  <1>2. /\ Info[b].parent \in Block \cup {NoBlock}
        /\ Info[b].height \in Nat /\ Info[b].next \in Nat
    BY <1>1 DEF InfoType
  <1>3. Info[b].height + UncleDepth <= TopHeight /\ TopHeight \in Nat /\ UncleDepth \in Nat
    BY ConstantsAssumption
  <1> QED
    BY <1>2, <1>3 DEF Parent, Height

\* Depths stay natural numbers, whatever the heights of the blocks involved
LEMMA DepthTypes ==
    ASSUME NEW n \in Int
    PROVE  AsDepth(n) \in Nat
  BY ConstantsAssumption DEF AsDepth

LEMMA RaisedTypes ==
    ASSUME TypeOK, NEW b \in Block
    PROVE  /\ Raised(b) \subseteq Block
           /\ \A x \in Raised(b) : RaisedDepth(b, x) \in Nat
  <1>1. Raised(b) \subseteq Block
    BY DEF TypeOK, Raised
  <1>2. ASSUME NEW x \in Raised(b) PROVE RaisedDepth(b, x) \in Nat
    <2>1. x \in Block
      BY <1>1, <1>2
    <2>2. Height(b) \in Nat /\ Height(x) \in Nat /\ depth[b] \in Nat
      BY <2>1, InfoTypes DEF TypeOK
    <2>3. depth[b] + (IF x = Parent(b) THEN 1 ELSE Height(b) - Height(x)) \in Int
      BY <2>2
    <2> QED
      BY <2>3, DepthTypes DEF RaisedDepth
  <1> QED
    BY <1>1, <1>2

\* The heights that update_depths and verify_loop look at above a block
LEMMA HeightsAbove ==
    ASSUME NEW b \in Block, NEW i \in 1 .. UncleDepth
    PROVE  Height(b) + i \in 0 .. TopHeight
  <1>1. /\ Info[b].height + UncleDepth <= TopHeight
        /\ TopHeight \in Nat /\ UncleDepth \in Nat
    BY ConstantsAssumption
  <1>2. Info[b].height \in Nat
    BY InfoTypes DEF Height
  <1> QED
    BY <1>1, <1>2 DEF Height

LEMMA AboveTypes ==
    ASSUME TypeOK, NEW b \in Block
    PROVE  /\ DepthsFromAbove(b) \subseteq Nat
           /\ \A level \in Nat : Above(level, b) \subseteq Nat \X Block
  <1>1. UncleDepth \in Nat /\ UncleDepth >= 1 /\ 1 \in 1 .. UncleDepth
    BY ConstantsAssumption
  <1>2. ASSUME NEW c \in Block, NEW i \in 1 .. UncleDepth
        PROVE  AsDepth(depth[c] + i) \in Nat
    <2>1. depth[c] \in Nat /\ i \in Nat
      BY DEF TypeOK
    <2> QED
      BY <2>1, DepthTypes
  <1>3. ASSUME NEW i \in 1 .. UncleDepth
        PROVE  blocksByHeight[Height(b) + i] \subseteq Block
    BY HeightsAbove DEF TypeOK
  <1>4. DepthsFromAbove(b) \subseteq Nat
    BY <1>1, <1>2, <1>3 DEF DepthsFromAbove
  <1>5. ASSUME NEW level \in Nat PROVE Above(level, b) \subseteq Nat \X Block
    BY <1>1, <1>3 DEF Above
  <1> QED
    BY <1>4, <1>5

-----------------------------------------------------------------------------
(* The stack of calls under m_sidechainLock: which local variables are set. *)

ControlOK ==
    /\ pc # "unlocked" => newBlock # NoBlock
    /\ pc = "propagate" => cur # NoBlock
    /\ pc = "verify" /\ returnTo = "propagate" => cur # NoBlock

\* What update_chain_tip assigns has the right types
LEMMA UpdateChainTipTypes ==
    ASSUME TypeOK, NEW b \in Block, UpdateChainTip(b)
    PROVE  /\ blocksById' \subseteq Block
           /\ blocksByHeight' \in [0 .. TopHeight -> SUBSET Block]
           /\ seenBlocks' \subseteq Block
           /\ chainTip' \in Block \cup {NoBlock}
           /\ curDifficulty' \in Nat
           /\ depth' \in [Block -> Nat]
           /\ verified' \in [Block -> BOOLEAN]
           /\ invalid' \in [Block -> BOOLEAN]
           /\ wantBroadcast' \in [Block -> BOOLEAN]
           /\ broadcasted' \in [Block -> BOOLEAN]
           /\ broadcasts' \in [Block -> Nat]
           /\ aged' \subseteq Block
           /\ templatePending' \in BOOLEAN
  <1>1. CASE ~verified[b] \/ invalid[b] \/ depth[b] >= Window
    BY <1>1 DEF TypeOK, UpdateChainTip, updateTipVars, storeVars, tipVars, blockVars
  <1>2. CASE ~(~verified[b] \/ invalid[b] \/ depth[b] >= Window)
    <2> DEFINE gone == IF BecomesTip(b) THEN Prunable(b) ELSE {}
    <2>1. /\ chainTip' = IF BecomesTip(b) THEN b ELSE chainTip
          /\ curDifficulty' = IF BecomesTip(b) THEN Info[b].next ELSE curDifficulty
          /\ templatePending' = (templatePending \/ BecomesTip(b) \/ PossibleUncle(b))
          /\ Prune(gone) /\ TipBroadcast(b, BecomesTip(b), gone)
      BY <1>2 DEF UpdateChainTip
    <2> HIDE DEF gone
    <2>2. /\ chainTip' \in Block \cup {NoBlock}
          /\ curDifficulty' \in Nat
      BY <2>1, InfoTypes DEF TypeOK
    <2>3. templatePending' \in BOOLEAN
      BY <2>1 DEF TypeOK
    <2>4. /\ blocksById' \subseteq Block
          /\ blocksByHeight' \in [0 .. TopHeight -> SUBSET Block]
          /\ seenBlocks' \subseteq Block
          /\ aged' \subseteq Block
      BY <2>1 DEF TypeOK, Prune, HeightsWithout
    <2>5. /\ depth' \in [Block -> Nat]
      BY <2>1 DEF TypeOK, Prune
    <2>6. /\ verified' \in [Block -> BOOLEAN]
          /\ invalid' \in [Block -> BOOLEAN]
      BY <2>1 DEF TypeOK, Prune
    <2>7. /\ wantBroadcast' \in [Block -> BOOLEAN]
          /\ broadcasted' \in [Block -> BOOLEAN]
      BY <2>1 DEF TypeOK, TipBroadcast, Sending
    <2>8. broadcasts' \in [Block -> Nat]
      BY <2>1 DEF TypeOK, TipBroadcast
    <2> QED
      BY <2>2, <2>3, <2>4, <2>5, <2>6, <2>7, <2>8
  <1> QED
    BY <1>1, <1>2

\* Everything the type invariant and its strengthening say about one step
LEMMA TypeStep ==
    ASSUME TypeOK, ControlOK, [Next]_vars
    PROVE  TypeOK' /\ ControlOK'
  <1> USE DEF TypeOK, ControlOK
  <1>0. NoBlock \notin Block /\ StartHeight \in Nat /\ MaxHeight \in Nat
    BY ConstantsAssumption DEF NoBlock
  <1>1. ASSUME NEW b \in Block, Receive(b) PROVE TypeOK' /\ ControlOK'
    BY <1>1 DEF Receive, checkUnchanged, tipVars, blockVars, callVars, templateVars
  <1>2. ASSUME NEW b \in Block, CheckBlock(b) \/ RejectBlock(b) PROVE TypeOK' /\ ControlOK'
    BY <1>2 DEF CheckBlock, RejectBlock, checkUnchanged, tipVars, blockVars, callVars, templateVars
  <1>3. ASSUME NEW b \in Block, RetryLater(b) PROVE TypeOK' /\ ControlOK'
    BY <1>3 DEF RetryLater, checkUnchanged, tipVars, blockVars, callVars, templateVars
  <1>4. ASSUME NEW b \in Block, AddBlock(b) PROVE TypeOK' /\ ControlOK'
    <2>1. CASE b \in blocksById
      BY <1>4, <2>1 DEF AddBlock, tipVars, blockVars, templateVars
    <2>2. CASE b \notin blocksById
      <3>1. blocksByHeight' \in [0 .. TopHeight -> SUBSET Block]
        <4>1. /\ blocksByHeight' = [blocksByHeight EXCEPT ![Height(b)] = @ \cup {b}]
              /\ blocksByHeight \in [0 .. TopHeight -> SUBSET Block]
          BY <1>4, <2>2 DEF AddBlock
        <4> HIDE DEF TypeOK, ControlOK
        <4> QED
          BY <4>1, InfoTypes
      <3>2. /\ verified' \in [Block -> BOOLEAN] /\ wantBroadcast' \in [Block -> BOOLEAN]
        BY <1>4, <2>2 DEF AddBlock
      <3>3. DepthsFromAbove(b) \subseteq Nat
        BY AboveTypes
      <3>4. depth' \in [Block -> Nat]
        <4>1. PICK d \in {0} \cup DepthsFromAbove(b) : depth' = [depth EXCEPT ![b] = d]
          BY <1>4, <2>2 DEF AddBlock
        <4> QED
          BY <4>1, <3>3
      <3>5. toUpdate' \subseteq Nat \X Block
        <4>1. toUpdate' = {<<1, b>>}
          BY <1>4, <2>2 DEF AddBlock
        <4> QED
          BY <4>1
      <3>6. /\ blocksById' = blocksById \cup {b} /\ newBlock' = b /\ pc' = "depths"
            /\ work' = [work EXCEPT ![b] = "none"]
            /\ UNCHANGED <<invalid, broadcasted, broadcasts, cur>>
            /\ UNCHANGED <<seenBlocks, tipVars, cached, aged, mainHeight, toVerify, highest,
                           returnTo, templateVars>>
        BY <1>4, <2>2 DEF AddBlock
      <3> QED
        BY <1>0, <3>1, <3>2, <3>4, <3>5, <3>6 DEF tipVars, templateVars
    <2> QED
      BY <2>1, <2>2
  <1>5. ASSUME NEW e \in toUpdate, PopToUpdate(e) PROVE TypeOK' /\ ControlOK'
    <2>1. e[2] \in Block /\ toUpdate \ {e} \subseteq Nat \X Block
          /\ <<1, e[2]>> \in Nat \X Block
      OBVIOUS
    <2>2. /\ cur' = e[2] /\ toUpdate' = toUpdate \ {e}
          /\ \/ /\ pc' = "verify" /\ toVerify' = {<<1, e[2]>>}
                /\ highest' = NoBlock /\ returnTo' = "propagate"
             \/ pc' = "propagate" /\ UNCHANGED <<toVerify, highest, returnTo>>
          /\ UNCHANGED startVerifyUnchanged /\ pc = "depths"
      BY <1>5 DEF PopToUpdate
    <2>3. toVerify' \subseteq Nat \X Block /\ toUpdate' \subseteq Nat \X Block
      BY <2>1, <2>2
    <2> QED
      BY <1>0, <2>1, <2>2, <2>3 DEF startVerifyUnchanged, storeVars, tipVars, blockVars,
         templateVars
  <1>6. ASSUME Propagate PROVE TypeOK' /\ ControlOK'
    <2>1. cur \in Block
      BY <1>6 DEF Propagate
    <2>2. depth' \in [Block -> Nat]
      BY <1>6, <2>1, RaisedTypes DEF Propagate
    <2>3. toUpdate' \subseteq Nat \X Block
      <3>1. PICK top \in {0} \cup {e[1] : e \in toUpdate} :
              toUpdate' = toUpdate \cup
                {<<IF x = Parent(cur) THEN top + 1 ELSE top + 2, x>> : x \in Raised(cur)}
        BY <1>6 DEF Propagate
      <3>2. toUpdate \subseteq Nat \X Block
        OBVIOUS
      <3>3. TypeOK
        OBVIOUS
      <3> HIDE DEF TypeOK, ControlOK
      <3>4. top \in Nat
        BY <3>2
      <3>5. Raised(cur) \subseteq Block
        BY <2>1, <3>3, RaisedTypes
      <3> QED
        BY <3>1, <3>2, <3>4, <3>5
    <2> QED
      BY <1>0, <1>6, <2>2, <2>3 DEF Propagate, storeVars, tipVars, templateVars
  <1>7. ASSUME NEW e \in toVerify, VerifyFails(e) PROVE TypeOK' /\ ControlOK'
    <2>1. verified' \in [Block -> BOOLEAN] /\ invalid' \in [Block -> BOOLEAN]
      BY <1>7 DEF VerifyFails
    <2> QED
      BY <1>7, <2>1 DEF VerifyFails, verifyUnchanged, storeVars, tipVars, templateVars
  <1>8. ASSUME NEW e \in toVerify, VerifyPasses(e) PROVE TypeOK' /\ ControlOK'
    <2>1. e[1] \in Nat /\ e[2] \in Block
      OBVIOUS
    <2>2. /\ verified' \in [Block -> BOOLEAN] /\ invalid' \in [Block -> BOOLEAN]
          /\ broadcasted' \in [Block -> BOOLEAN]
      <3>1. /\ verified \in [Block -> BOOLEAN] /\ invalid \in [Block -> BOOLEAN]
            /\ broadcasted \in [Block -> BOOLEAN]
        OBVIOUS
      <3>2. /\ verified' = [verified EXCEPT ![e[2]] = TRUE]
            /\ invalid' = [invalid EXCEPT ![e[2]] = FALSE]
            /\ broadcasted' = [broadcasted EXCEPT ![e[2]] =
                                 @ \/ Sending(e[2], wantBroadcast[e[2]])]
        BY <1>8 DEF VerifyPasses
      <3> HIDE DEF TypeOK, ControlOK
      <3>3. Sending(e[2], wantBroadcast[e[2]]) \in BOOLEAN
        BY DEF Sending
      <3>4. verified' \in [Block -> BOOLEAN] /\ invalid' \in [Block -> BOOLEAN]
        BY <3>1, <3>2
      <3>5. broadcasted' \in [Block -> BOOLEAN]
        BY <3>1, <3>2, <3>3
      <3> QED
        BY <3>4, <3>5
    <2>3. broadcasts' \in [Block -> Nat] /\ highest' \in Block \cup {NoBlock}
      <3>1. broadcasts \in [Block -> Nat] /\ highest \in Block \cup {NoBlock}
        OBVIOUS
      <3>2. /\ highest' = highest \/ highest' = e[2]
            /\ \E n \in {broadcasts[e[2]], broadcasts[e[2]] + 1} :
                 broadcasts' = [broadcasts EXCEPT ![e[2]] = n]
        BY <1>8 DEF VerifyPasses
      <3> HIDE DEF TypeOK, ControlOK
      <3> QED
        BY <2>1, <3>1, <3>2
    <2>4. Above(e[1], e[2]) \subseteq Nat \X Block
      BY <2>1, AboveTypes
    <2>5. toVerify' \subseteq Nat \X Block /\ cached' \subseteq Block
      BY <1>8, <2>1, <2>4 DEF VerifyPasses
    <2> QED
      BY <1>8, <2>2, <2>3, <2>5 DEF VerifyPasses, verifyUnchanged, storeVars, tipVars, templateVars
  <1>9. ASSUME FinishVerifyLoop PROVE TypeOK' /\ ControlOK'
    <2>1. CASE highest = NoBlock
      BY <1>9, <2>1 DEF FinishVerifyLoop, updateTipVars, storeVars, tipVars, blockVars
    <2>2. CASE highest # NoBlock
      BY <1>9, <2>2, UpdateChainTipTypes DEF FinishVerifyLoop
    <2> QED
      BY <2>1, <2>2
  <1>10. ASSUME FinishUpdateDepths PROVE TypeOK' /\ ControlOK'
    <2>0. newBlock \in Block /\ <<1, newBlock>> \in Nat \X Block
      BY <1>10 DEF FinishUpdateDepths
    <2>1. CASE verified[newBlock] /\ ~invalid[newBlock]
      BY <1>10, <2>0, <2>1, UpdateChainTipTypes DEF FinishUpdateDepths
    <2>2. CASE ~verified[newBlock] \/ invalid[newBlock]
      BY <1>10, <2>0, <2>2 DEF FinishUpdateDepths, updateTipVars, storeVars, tipVars, blockVars
    <2> QED
      BY <2>1, <2>2
  <1>11. ASSUME UpdateBlockTemplate PROVE TypeOK' /\ ControlOK'
    <2>1. FillSidechainData \in [parent : Block \cup {NoBlock}, uncles : SUBSET Block]
      BY DEF FillSidechainData, FillUncles
    <2> QED
      BY <1>11, <2>1 DEF UpdateBlockTemplate, storeVars, tipVars, blockVars, callVars
  <1>12. ASSUME NEW b \in Block, SubmitOwnBlock(b) PROVE TypeOK' /\ ControlOK'
    BY <1>12 DEF SubmitOwnBlock, checkUnchanged, tipVars, blockVars, callVars, templateVars
  <1>13. ASSUME MainchainAdvances PROVE TypeOK' /\ ControlOK'
    BY <1>0, <1>13 DEF MainchainAdvances, storeVars, tipVars, blockVars, callVars
  <1>14. ASSUME TimePasses PROVE TypeOK' /\ ControlOK'
    BY <1>14 DEF TimePasses, storeVars, tipVars, blockVars, callVars, templateVars
  <1>15. CASE UNCHANGED vars
    BY <1>15 DEF vars, storeVars, tipVars, blockVars, callVars, templateVars
  <1> QED
    BY <1>1, <1>2, <1>3, <1>4, <1>5, <1>6, <1>7, <1>8, <1>9, <1>10, <1>11, <1>12, <1>13,
       <1>14, <1>15 DEF Next, Worker, LockHolder

LEMMA TypeInit == Init => TypeOK /\ ControlOK
  <1> SUFFICES ASSUME Init PROVE TypeOK /\ ControlOK
    OBVIOUS
  <1> QED
    BY ConstantsAssumption DEF Init, TypeOK, ControlOK, NoBlock

\* Every state of the side chain is well typed: no null pointer is stored, every
\* local of add_block, update_depths and verify_loop is set while it is in use.
THEOREM TypeCorrect == Spec => []TypeOK
  <1>1. Init => TypeOK /\ ControlOK
    BY TypeInit
  <1>2. TypeOK /\ ControlOK /\ [Next]_vars => (TypeOK /\ ControlOK)'
    BY TypeStep
  <1> QED
    BY <1>1, <1>2, PTL DEF Spec

-----------------------------------------------------------------------------
(* The indexes and m_seenBlocks.                                           *)

StoreInv == IndexesAgree /\ NeverAddedTwice

\* Deleting blocks keeps the indexes and m_seenBlocks in step
LEMMA PruneKeepsStore ==
    ASSUME TypeOK, StoreInv, NEW b \in Block, UpdateChainTip(b), work' = work
    PROVE  StoreInv'
  <1>1. CASE UNCHANGED updateTipVars
    BY <1>1 DEF StoreInv, IndexesAgree, NeverAddedTwice, updateTipVars, storeVars
  <1>2. ASSUME ~UNCHANGED updateTipVars PROVE StoreInv'
    <2> DEFINE gone == IF BecomesTip(b) THEN Prunable(b) ELSE {}
    <2>1. Prune(gone)
      BY <1>2 DEF UpdateChainTip
    <2>2. gone \subseteq blocksById
      BY DEF StoreInv, IndexesAgree, Prunable
    <2> HIDE DEF gone
    <2>3. /\ blocksById' = blocksById \ gone /\ seenBlocks' = seenBlocks \ gone
          /\ blocksByHeight' = [h \in 0 .. TopHeight |-> blocksByHeight[h] \ gone]
      BY <2>1 DEF Prune, HeightsWithout
    <2>4. IndexesAgree'
      <3>1. \A x \in blocksById : Height(x) \in 0 .. TopHeight
        BY InfoTypes DEF TypeOK
      <3> QED
        BY <2>3, <3>1 DEF StoreInv, IndexesAgree, Height
    <2>5. NeverAddedTwice'
      BY <2>2, <2>3 DEF StoreInv, NeverAddedTwice
    <2> QED
      BY <2>4, <2>5 DEF StoreInv
  <1> QED
    BY <1>1, <1>2

LEMMA StoreStep ==
    ASSUME TypeOK, ControlOK, StoreInv, [Next]_vars
    PROVE  StoreInv'
  <1>1. ASSUME UNCHANGED <<storeVars, work>> PROVE StoreInv'
    BY <1>1 DEF StoreInv, IndexesAgree, NeverAddedTwice, storeVars
  <1>2. ASSUME NEW b \in Block, Receive(b) \/ SubmitOwnBlock(b) PROVE StoreInv'
    <2>1. /\ b \notin seenBlocks /\ seenBlocks' = seenBlocks \cup {b}
          /\ \/ work' = [work EXCEPT ![b] = "check"]
             \/ work' = [work EXCEPT ![b] = "own"]
          /\ UNCHANGED <<blocksById, blocksByHeight>>
      BY <1>2 DEF Receive, SubmitOwnBlock, BlockSeen, checkUnchanged
    <2>2. IndexesAgree'
      BY <2>1 DEF StoreInv, IndexesAgree
    <2>3. NeverAddedTwice'
      BY <2>1 DEF StoreInv, NeverAddedTwice, TypeOK
    <2> QED
      BY <2>2, <2>3 DEF StoreInv
  <1>3. ASSUME NEW b \in Block, CheckBlock(b) \/ RejectBlock(b) \/ RetryLater(b)
        PROVE  StoreInv'
    <2>1. /\ work[b] = "check"
          /\ \/ seenBlocks' = seenBlocks /\ work' = [work EXCEPT ![b] = "add"]
             \/ seenBlocks' = seenBlocks /\ work' = [work EXCEPT ![b] = "none"]
             \/ seenBlocks' = seenBlocks \ {b} /\ work' = [work EXCEPT ![b] = "none"]
          /\ UNCHANGED <<blocksById, blocksByHeight>>
      BY <1>3 DEF CheckBlock, RejectBlock, RetryLater, checkUnchanged
    <2>2. IndexesAgree'
      BY <2>1 DEF StoreInv, IndexesAgree
    <2>3. NeverAddedTwice'
      BY <2>1 DEF StoreInv, NeverAddedTwice, TypeOK
    <2> QED
      BY <2>2, <2>3 DEF StoreInv
  <1>4. ASSUME NEW b \in Block, AddBlock(b) PROVE StoreInv'
    <2>1. /\ work[b] # "none" /\ b \in seenBlocks \ blocksById
      BY <1>4 DEF AddBlock, StoreInv, NeverAddedTwice
    <2>2. /\ blocksById' = blocksById \cup {b} /\ seenBlocks' = seenBlocks
          /\ blocksByHeight' = [blocksByHeight EXCEPT ![Height(b)] = @ \cup {b}]
          /\ work' = [work EXCEPT ![b] = "none"]
      BY <1>4, <2>1 DEF AddBlock
    <2>3. IndexesAgree'
      BY <2>2, InfoTypes DEF StoreInv, IndexesAgree, TypeOK, Height
    <2>4. NeverAddedTwice'
      BY <2>1, <2>2 DEF StoreInv, NeverAddedTwice, TypeOK
    <2> QED
      BY <2>3, <2>4 DEF StoreInv
  <1>5. ASSUME FinishVerifyLoop PROVE StoreInv'
    <2>1. CASE highest = NoBlock
      BY <1>1, <1>5, <2>1 DEF FinishVerifyLoop, updateTipVars
    <2>2. CASE highest # NoBlock
      BY <1>5, <2>2, PruneKeepsStore DEF FinishVerifyLoop, TypeOK
    <2> QED
      BY <2>1, <2>2
  <1>6. ASSUME FinishUpdateDepths PROVE StoreInv'
    <2>1. CASE verified[newBlock] /\ ~invalid[newBlock]
      BY <1>6, <2>1, PruneKeepsStore DEF FinishUpdateDepths, TypeOK, ControlOK
    <2>2. CASE ~verified[newBlock] \/ invalid[newBlock]
      BY <1>1, <1>6, <2>2 DEF FinishUpdateDepths, updateTipVars
    <2> QED
      BY <2>1, <2>2
  <1>7. ASSUME NEW e, PopToUpdate(e) PROVE StoreInv'
    BY <1>1, <1>7 DEF PopToUpdate, startVerifyUnchanged
  <1>8. ASSUME Propagate PROVE StoreInv'
    BY <1>1, <1>8 DEF Propagate
  <1>9. ASSUME NEW e, VerifyFails(e) \/ VerifyPasses(e) PROVE StoreInv'
    BY <1>1, <1>9 DEF VerifyFails, VerifyPasses, verifyUnchanged
  <1>10. ASSUME UpdateBlockTemplate \/ MainchainAdvances \/ TimePasses PROVE StoreInv'
    BY <1>1, <1>10 DEF UpdateBlockTemplate, MainchainAdvances, TimePasses
  <1>11. CASE UNCHANGED vars
    BY <1>1, <1>11 DEF vars
  <1> QED
    BY <1>2, <1>3, <1>4, <1>5, <1>6, <1>7, <1>8, <1>9, <1>10, <1>11
       DEF Next, Worker, LockHolder

LEMMA StoreInit == Init => StoreInv
  BY ConstantsAssumption DEF Init, StoreInv, IndexesAgree, NeverAddedTwice

LEMMA StoreInvariant == Spec => [](TypeOK /\ ControlOK /\ StoreInv)
  <1>1. Init => TypeOK /\ ControlOK /\ StoreInv
    BY TypeInit, StoreInit
  <1>2. TypeOK /\ ControlOK /\ StoreInv /\ [Next]_vars => (TypeOK /\ ControlOK /\ StoreInv)'
    BY TypeStep, StoreStep
  <1> QED
    BY <1>1, <1>2, PTL DEF Spec

\* However many workers process blocks, and whenever blocks are deleted and may
\* come again, a stored block and a block in flight are remembered in
\* m_seenBlocks, and no block in flight is stored already.
THEOREM NoBlockAddedTwice == Spec => []NeverAddedTwice
  <1>1. TypeOK /\ ControlOK /\ StoreInv => NeverAddedTwice
    BY DEF StoreInv
  <1> QED
    BY <1>1, StoreInvariant, PTL

\* m_blocksById and m_blocksByHeight never disagree.
THEOREM IndexesNeverDisagree == Spec => []IndexesAgree
  <1>1. TypeOK /\ ControlOK /\ StoreInv => IndexesAgree
    BY DEF StoreInv
  <1> QED
    BY <1>1, StoreInvariant, PTL

-----------------------------------------------------------------------------
(* The chain tip and the candidates for it.                                *)

\* verify_loop's highest_block is verified and valid, so that the error "trying to
\* update chain tip to an unverified or invalid block, fix the code!" of
\* update_chain_tip is never logged.
GoodCandidate == highest # NoBlock => verified[highest] /\ ~invalid[highest]

\* verify_loop is not re-entered: its highest_block is unset outside of it
CandidateInv == GoodCandidate /\ (pc # "verify" => highest = NoBlock)

LEMMA CandidateStep ==
    ASSUME TypeOK, ControlOK, CandidateInv, [Next]_vars
    PROVE  CandidateInv'
  <1>1. ASSUME UNCHANGED <<verified, invalid, highest, pc>> PROVE CandidateInv'
    BY <1>1 DEF CandidateInv, GoodCandidate
  <1>2. ASSUME NEW b \in Block, Receive(b) \/ SubmitOwnBlock(b) PROVE CandidateInv'
    BY <1>1, <1>2 DEF Receive, SubmitOwnBlock, checkUnchanged, blockVars, callVars
  <1>3. ASSUME NEW b \in Block, CheckBlock(b) \/ RejectBlock(b) \/ RetryLater(b)
        PROVE  CandidateInv'
    BY <1>1, <1>3 DEF CheckBlock, RejectBlock, RetryLater, checkUnchanged, blockVars, callVars
  <1>4. ASSUME NEW b \in Block, AddBlock(b) PROVE CandidateInv'
    BY <1>4 DEF AddBlock, CandidateInv, GoodCandidate
  <1>5. ASSUME NEW e \in toUpdate, PopToUpdate(e) PROVE CandidateInv'
    BY <1>5 DEF PopToUpdate, CandidateInv, GoodCandidate
  <1>6. ASSUME Propagate PROVE CandidateInv'
    BY <1>6 DEF Propagate, CandidateInv, GoodCandidate
  <1>7. ASSUME NEW e \in toVerify, VerifyFails(e) PROVE CandidateInv'
    <2>1. /\ UNCHANGED <<highest, pc>> /\ pc = "verify" /\ e[2] \in Block
          /\ verified' = [verified EXCEPT ![e[2]] = @ \/ Verdict(e[2]) = "invalid"]
          /\ invalid' = [invalid EXCEPT ![e[2]] =
               @ \/ (~verified[e[2]] /\ Verdict(e[2]) \in {"invalid", "wrong height"})]
      BY <1>7 DEF VerifyFails, verifyUnchanged, TypeOK
    <2>2. ASSUME highest # NoBlock PROVE verified'[highest] /\ ~invalid'[highest]
      <3>1. highest \in Block /\ verified[highest] /\ ~invalid[highest]
        BY <2>2 DEF TypeOK, CandidateInv, GoodCandidate
      <3> QED
        BY <2>1, <3>1 DEF TypeOK
    <2> QED
      BY <2>1, <2>2 DEF CandidateInv, GoodCandidate
  <1>8. ASSUME NEW e \in toVerify, VerifyPasses(e) PROVE CandidateInv'
    <2>1. /\ pc = "verify" /\ UNCHANGED pc /\ e[2] \in Block
          /\ highest' \in {e[2], highest}
          /\ verified' = [verified EXCEPT ![e[2]] = TRUE]
          /\ invalid' = [invalid EXCEPT ![e[2]] = FALSE]
      BY <1>8 DEF VerifyPasses, verifyUnchanged, TypeOK
    <2> QED
      BY <2>1 DEF CandidateInv, GoodCandidate, TypeOK
  <1>9. ASSUME FinishVerifyLoop PROVE CandidateInv'
    BY <1>9 DEF FinishVerifyLoop, CandidateInv, GoodCandidate, TypeOK
  <1>10. ASSUME FinishUpdateDepths PROVE CandidateInv'
    BY <1>10 DEF FinishUpdateDepths, CandidateInv, GoodCandidate
  <1>11. ASSUME UpdateBlockTemplate \/ MainchainAdvances \/ TimePasses PROVE CandidateInv'
    BY <1>1, <1>11 DEF UpdateBlockTemplate, MainchainAdvances, TimePasses, blockVars, callVars
  <1>12. CASE UNCHANGED vars
    BY <1>1, <1>12 DEF vars, blockVars, callVars
  <1> QED
    BY <1>2, <1>3, <1>4, <1>5, <1>6, <1>7, <1>8, <1>9, <1>10, <1>11, <1>12
       DEF Next, Worker, LockHolder

\* update_chain_tip is only ever called with a verified and valid block.
THEOREM CandidatesAreGood == Spec => []GoodCandidate
  <1>1. Init => TypeOK /\ ControlOK /\ CandidateInv
    BY TypeInit DEF Init, CandidateInv, GoodCandidate
  <1>2. TypeOK /\ ControlOK /\ CandidateInv /\ [Next]_vars
          => (TypeOK /\ ControlOK /\ CandidateInv)'
    BY TypeStep, CandidateStep
  <1>3. CandidateInv => GoodCandidate
    BY DEF CandidateInv
  <1> QED
    BY <1>1, <1>2, <1>3, PTL DEF Spec

\* The chain tip is allocated, verified and valid: no deleted block is mined on
TipIsGood ==
    chainTip # NoBlock =>
        chainTip \in blocksById /\ verified[chainTip] /\ ~invalid[chainTip]

\* update_chain_tip never deletes the tip it has just set
LEMMA PruneKeepsTip ==
    ASSUME TypeOK, StoreInv, TipIsGood, NEW b \in blocksById, UpdateChainTip(b)
    PROVE  TipIsGood'
  <1>1. CASE ~verified[b] \/ invalid[b] \/ depth[b] >= Window
    BY <1>1 DEF TipIsGood, UpdateChainTip, updateTipVars, storeVars, tipVars, blockVars
  <1>2. CASE ~(~verified[b] \/ invalid[b] \/ depth[b] >= Window)
    <2> DEFINE gone == IF BecomesTip(b) THEN Prunable(b) ELSE {}
    <2>1. chainTip' = (IF BecomesTip(b) THEN b ELSE chainTip) /\ Prune(gone)
      BY <1>2 DEF UpdateChainTip
    <2>2. b \in Block /\ b \notin Prunable(b)
      <3>1. b \in Block /\ Height(b) \in Nat
        BY InfoTypes DEF TypeOK
      <3>2. PruneDistance \in Nat /\ PruneDistance > 0
        BY ConstantsAssumption DEF PruneDistance
      <3>3. ASSUME NEW h \in 0 .. TopHeight, h + PruneDistance <= Height(b)
            PROVE  b \notin blocksByHeight[h]
        BY <3>1, <3>2, <3>3 DEF StoreInv, IndexesAgree
      <3> QED
        BY <3>1, <3>3 DEF Prunable
    <2>3. CASE BecomesTip(b)
      BY <1>2, <2>1, <2>2, <2>3 DEF TipIsGood, Prune
    <2>4. CASE ~BecomesTip(b)
      BY <2>1, <2>4 DEF TipIsGood, Prune, TypeOK
    <2> QED
      BY <2>3, <2>4
  <1> QED
    BY <1>1, <1>2

LEMMA TipStep ==
    ASSUME TypeOK, ControlOK, StoreInv, NoDanglingPointer, TipIsGood, [Next]_vars
    PROVE  TipIsGood'
  <1>1. ASSUME UNCHANGED <<blocksById, chainTip, verified, invalid>> PROVE TipIsGood'
    BY <1>1 DEF TipIsGood
  <1>2. ASSUME NEW b \in Block, Receive(b) \/ SubmitOwnBlock(b) \/ CheckBlock(b)
                                \/ RejectBlock(b) \/ RetryLater(b)
        PROVE  TipIsGood'
    BY <1>1, <1>2 DEF Receive, SubmitOwnBlock, CheckBlock, RejectBlock, RetryLater,
       checkUnchanged, tipVars, blockVars
  <1>3. ASSUME NEW b \in Block, AddBlock(b) PROVE TipIsGood'
    <2>1. b \notin blocksById
      BY <1>3 DEF AddBlock, StoreInv, NeverAddedTwice
    <2> QED
      BY <1>3, <2>1 DEF AddBlock, TipIsGood, TypeOK, tipVars
  <1>4. ASSUME NEW e \in toUpdate, PopToUpdate(e) PROVE TipIsGood'
    BY <1>1, <1>4 DEF PopToUpdate, startVerifyUnchanged, storeVars, tipVars, blockVars
  <1>5. ASSUME Propagate PROVE TipIsGood'
    BY <1>1, <1>5 DEF Propagate, storeVars, tipVars
  <1>6. ASSUME NEW e \in toVerify, VerifyFails(e) PROVE TipIsGood'
    <2>1. /\ UNCHANGED <<blocksById, chainTip>> /\ e[2] \in Block
          /\ verified' = [verified EXCEPT ![e[2]] = @ \/ Verdict(e[2]) = "invalid"]
          /\ invalid' = [invalid EXCEPT ![e[2]] =
               @ \/ (~verified[e[2]] /\ Verdict(e[2]) \in {"invalid", "wrong height"})]
      BY <1>6 DEF VerifyFails, verifyUnchanged, storeVars, tipVars, TypeOK
    <2>2. ASSUME chainTip # NoBlock PROVE verified'[chainTip] /\ ~invalid'[chainTip]
      <3>1. chainTip \in Block /\ verified[chainTip] /\ ~invalid[chainTip]
        BY <2>2 DEF TypeOK, TipIsGood
      <3> QED
        BY <2>1, <3>1 DEF TypeOK
    <2> QED
      BY <2>1, <2>2 DEF TipIsGood
  <1>7. ASSUME NEW e \in toVerify, VerifyPasses(e) PROVE TipIsGood'
    <2>1. /\ UNCHANGED <<blocksById, chainTip>> /\ e[2] \in Block
          /\ verified' = [verified EXCEPT ![e[2]] = TRUE]
          /\ invalid' = [invalid EXCEPT ![e[2]] = FALSE]
      BY <1>7 DEF VerifyPasses, verifyUnchanged, storeVars, tipVars, TypeOK
    <2> QED
      BY <2>1 DEF TipIsGood, TypeOK
  <1>8. ASSUME FinishVerifyLoop PROVE TipIsGood'
    <2>1. CASE highest = NoBlock
      BY <1>1, <1>8, <2>1 DEF FinishVerifyLoop, updateTipVars, storeVars, tipVars, blockVars
    <2>2. CASE highest # NoBlock
      <3>1. highest \in blocksById
        BY <2>2 DEF NoDanglingPointer, Stored
      <3> QED
        BY <1>8, <2>2, <3>1, PruneKeepsTip DEF FinishVerifyLoop
    <2> QED
      BY <2>1, <2>2
  <1>9. ASSUME FinishUpdateDepths PROVE TipIsGood'
    <2>1. newBlock \in blocksById
      BY <1>9 DEF FinishUpdateDepths, ControlOK, NoDanglingPointer, Stored
    <2>2. CASE verified[newBlock] /\ ~invalid[newBlock]
      BY <1>9, <2>1, <2>2, PruneKeepsTip DEF FinishUpdateDepths
    <2>3. CASE ~verified[newBlock] \/ invalid[newBlock]
      BY <1>1, <1>9, <2>3 DEF FinishUpdateDepths, updateTipVars, storeVars, tipVars, blockVars
    <2> QED
      BY <2>2, <2>3
  <1>10. ASSUME UpdateBlockTemplate \/ MainchainAdvances \/ TimePasses PROVE TipIsGood'
    BY <1>1, <1>10 DEF UpdateBlockTemplate, MainchainAdvances, TimePasses, storeVars, tipVars,
       blockVars
  <1>11. CASE UNCHANGED vars
    BY <1>1, <1>11 DEF vars, storeVars, tipVars, blockVars
  <1> QED
    BY <1>2, <1>3, <1>4, <1>5, <1>6, <1>7, <1>8, <1>9, <1>10, <1>11
       DEF Next, Worker, LockHolder

\* As long as no pointer of the lock holder dangles (model-checked, it depends on
\* the shape of the tree and on PruneSlack), the chain tip that templates,
\* get_shares and is_longer_chain start from is allocated, verified and valid.
THEOREM TipStaysGood == Spec /\ []NoDanglingPointer => []TipIsGood
  <1>1. Init => TipIsGood
    BY DEF Init, TipIsGood
  <1>2. /\ TypeOK /\ ControlOK /\ StoreInv
        /\ NoDanglingPointer /\ TipIsGood /\ [Next]_vars
        => TipIsGood'
    BY TipStep
  <1> QED
    BY <1>1, <1>2, StoreInvariant, PTL DEF Spec

-----------------------------------------------------------------------------
(* What goes to the peers.                                                 *)

\* m_broadcasted is set with the first broadcast, and what was broadcast is
\* stored, verified and valid
OutOnce(b) ==
    \/ broadcasts[b] = 0
    \/ /\ broadcasts[b] = 1 /\ broadcasted[b]
       /\ verified[b] /\ ~invalid[b] /\ b \in blocksById

BroadcastInv ==
    /\ \A b \in Block : OutOnce(b)
    /\ chainTip # NoBlock => broadcasted[chainTip]

\* The tip is never among the blocks prune_old_blocks deletes
LEMMA TipIsNotPruned ==
    ASSUME TypeOK, StoreInv, NEW b \in Block
    PROVE  b \notin Prunable(b)
  <1>1. Height(b) \in Nat /\ PruneDistance \in Nat /\ PruneDistance > 0
    BY InfoTypes, ConstantsAssumption DEF PruneDistance
  <1>2. ASSUME NEW h \in 0 .. TopHeight, h + PruneDistance <= Height(b)
        PROVE  b \notin blocksByHeight[h]
    BY <1>1, <1>2 DEF StoreInv, IndexesAgree
  <1> QED
    BY <1>2 DEF Prunable

LEMMA TipBroadcastStep ==
    ASSUME TypeOK, StoreInv, TipIsGood, BroadcastInv, NEW b \in blocksById, UpdateChainTip(b)
    PROVE  BroadcastInv'
  <1>1. CASE ~verified[b] \/ invalid[b] \/ depth[b] >= Window
    BY <1>1 DEF BroadcastInv, OutOnce, UpdateChainTip, updateTipVars, storeVars, tipVars, blockVars
  <1>2. CASE ~(~verified[b] \/ invalid[b] \/ depth[b] >= Window)
    <2> DEFINE gone == IF BecomesTip(b) THEN Prunable(b) ELSE {}
               wanted == wantBroadcast[b] \/ BecomesTip(b)
    <2>1. /\ chainTip' = IF BecomesTip(b) THEN b ELSE chainTip
          /\ Prune(gone) /\ TipBroadcast(b, BecomesTip(b), gone)
      BY <1>2 DEF UpdateChainTip
    <2>2. b \in Block /\ b \notin gone
      BY TipIsNotPruned DEF TypeOK
    <2>3. /\ blocksById' = blocksById \ gone
          /\ \A x \in Block : /\ verified'[x] = (x \notin gone /\ verified[x])
                              /\ invalid'[x] = (x \notin gone /\ invalid[x])
      BY <2>1 DEF Prune
    <2>4. \A x \in Block :
            /\ broadcasted'[x] = IF x = b THEN broadcasted[x] \/ Sending(b, wanted)
                                ELSE x \notin gone /\ broadcasted[x]
            /\ broadcasts'[x] = IF x = b /\ Sending(b, wanted) THEN broadcasts[x] + 1
                               ELSE IF x \in gone THEN 0 ELSE broadcasts[x]
      BY <2>1 DEF TipBroadcast
    <2>5. Sending(b, wanted) => ~broadcasted[b]
      BY DEF Sending
    <2>6. BecomesTip(b) => broadcasted[b] \/ Sending(b, wanted)
      BY DEF Sending
    <2>7. \/ chainTip' = b /\ BecomesTip(b)
          \/ chainTip' = chainTip /\ gone = {}
      BY <2>1
    <2> DEFINE sending == Sending(b, wanted)
    <2> HIDE DEF gone, wanted, sending
    <2>8. OutOnce(b)'
      <3>1. broadcasts[b] = 0 \/ (broadcasts[b] = 1 /\ broadcasted[b])
        BY <2>2 DEF BroadcastInv, OutOnce
      <3>2. verified'[b] /\ ~invalid'[b] /\ b \in blocksById'
        BY <1>2, <2>2, <2>3
      <3>3. CASE sending
        <4>1. broadcasts[b] = 0 /\ broadcasted'[b]
          BY <2>2, <2>4, <2>5, <3>1, <3>3 DEF sending
        <4>2. broadcasts'[b] = broadcasts[b] + 1
          BY <2>2, <2>4, <3>3 DEF sending
        <4>3. broadcasts'[b] = 1
          BY <4>1, <4>2
        <4> QED
          BY <3>2, <4>1, <4>3 DEF OutOnce
      <3>4. CASE ~sending
        BY <2>2, <2>4, <3>1, <3>2, <3>4 DEF OutOnce, sending
      <3> QED
        BY <3>3, <3>4
    <2>9. ASSUME NEW x \in Block, x # b PROVE OutOnce(x)'
      <3>1. /\ broadcasted'[x] = (x \notin gone /\ broadcasted[x])
            /\ broadcasts'[x] = IF x \in gone THEN 0 ELSE broadcasts[x]
        BY <2>4, <2>9
      <3> QED
        BY <2>3, <3>1 DEF BroadcastInv, OutOnce
    <2>10. chainTip' # NoBlock => broadcasted'[chainTip']
      <3>1. CASE chainTip' = b /\ BecomesTip(b)
        BY <2>2, <2>4, <2>6, <3>1
      <3>2. CASE chainTip' = chainTip /\ gone = {}
        BY <2>2, <2>4, <3>2 DEF BroadcastInv, TypeOK
      <3> QED
        BY <2>7, <3>1, <3>2
    <2> QED
      BY <2>8, <2>9, <2>10 DEF BroadcastInv
  <1> QED
    BY <1>1, <1>2

LEMMA BroadcastStep ==
    ASSUME TypeOK, ControlOK, StoreInv, NoDanglingPointer, TipIsGood, BroadcastInv, [Next]_vars
    PROVE  BroadcastInv'
  <1>1. ASSUME UNCHANGED <<blocksById, chainTip, verified, invalid, broadcasted, broadcasts>>
        PROVE  BroadcastInv'
    BY <1>1 DEF BroadcastInv, OutOnce
  <1>2. ASSUME NEW b \in Block, Receive(b) \/ SubmitOwnBlock(b) \/ CheckBlock(b)
                                \/ RejectBlock(b) \/ RetryLater(b)
        PROVE  BroadcastInv'
    BY <1>1, <1>2 DEF Receive, SubmitOwnBlock, CheckBlock, RejectBlock, RetryLater,
       checkUnchanged, tipVars, blockVars
  <1>3. ASSUME NEW b \in Block, AddBlock(b) PROVE BroadcastInv'
    <2>1. b \notin blocksById
      BY <1>3 DEF AddBlock, StoreInv, NeverAddedTwice
    <2>2. /\ blocksById' = blocksById \cup {b}
          /\ verified' = [verified EXCEPT ![b] = work[b] = "own"]
          /\ UNCHANGED <<chainTip, invalid, broadcasted, broadcasts>>
      BY <1>3, <2>1 DEF AddBlock, tipVars
    <2> QED
      BY <2>1, <2>2 DEF BroadcastInv, OutOnce, TypeOK
  <1>4. ASSUME NEW e \in toUpdate, PopToUpdate(e) PROVE BroadcastInv'
    BY <1>1, <1>4 DEF PopToUpdate, startVerifyUnchanged, storeVars, tipVars, blockVars
  <1>5. ASSUME Propagate PROVE BroadcastInv'
    BY <1>1, <1>5 DEF Propagate, storeVars, tipVars
  <1>6. ASSUME NEW e \in toVerify, VerifyFails(e) PROVE BroadcastInv'
    <2>1. /\ UNCHANGED <<blocksById, chainTip, broadcasted, broadcasts>> /\ e[2] \in Block
          /\ verified' = [verified EXCEPT ![e[2]] = @ \/ Verdict(e[2]) = "invalid"]
          /\ invalid' = [invalid EXCEPT ![e[2]] =
               @ \/ (~verified[e[2]] /\ Verdict(e[2]) \in {"invalid", "wrong height"})]
      BY <1>6 DEF VerifyFails, verifyUnchanged, storeVars, tipVars, TypeOK
    <2>2. ASSUME NEW x \in Block, verified[x], ~invalid[x] PROVE verified'[x] /\ ~invalid'[x]
      BY <2>1, <2>2 DEF TypeOK
    <2> QED
      BY <2>1, <2>2 DEF BroadcastInv, OutOnce
  <1>7. ASSUME NEW e \in toVerify, VerifyPasses(e) PROVE BroadcastInv'
    <2> DEFINE b == e[2]
               sending == Sending(b, wantBroadcast[b])
    <2>1. /\ UNCHANGED <<blocksById, chainTip>> /\ b \in Block /\ b \in blocksById
          /\ verified' = [verified EXCEPT ![b] = TRUE]
          /\ invalid' = [invalid EXCEPT ![b] = FALSE]
          /\ broadcasted' = [broadcasted EXCEPT ![b] = @ \/ sending]
          /\ broadcasts' = [broadcasts EXCEPT ![b] =
                              IF sending /\ depth[b] < UncleDepth THEN @ + 1 ELSE @]
      <3>1. b \in Block /\ b \in blocksById
        <4>1. b \in {f[2] : f \in toUpdate \cup toVerify} /\ b \in Block /\ NoBlock \notin Block
          BY ConstantsAssumption DEF TypeOK, NoBlock
        <4> QED
          BY <4>1 DEF NoDanglingPointer, Stored
      <3> QED
        BY <1>7, <3>1 DEF VerifyPasses, verifyUnchanged, storeVars, tipVars
    <2>2. sending => ~broadcasted[b]
      BY DEF Sending
    <2>3. chainTip # NoBlock => chainTip \in Block
      BY DEF TypeOK
    <2> HIDE DEF b, sending
    <2>4. /\ \A x \in Block : x # b => /\ verified'[x] = verified[x] /\ invalid'[x] = invalid[x]
                                       /\ broadcasted'[x] = broadcasted[x]
                                       /\ broadcasts'[x] = broadcasts[x]
          /\ verified'[b] /\ ~invalid'[b] /\ broadcasted'[b] = (broadcasted[b] \/ sending)
          /\ broadcasts'[b] = broadcasts[b] \/ (sending /\ broadcasts'[b] = broadcasts[b] + 1)
      BY <2>1 DEF TypeOK
    <2>5. OutOnce(b)'
      <3>1. broadcasts[b] = 0 \/ (broadcasts[b] = 1 /\ broadcasted[b])
        BY <2>1 DEF BroadcastInv, OutOnce
      <3>2. CASE broadcasts'[b] = broadcasts[b]
        BY <2>1, <2>4, <3>1, <3>2 DEF OutOnce
      <3>3. CASE sending /\ broadcasts'[b] = broadcasts[b] + 1
        <4>1. broadcasts[b] = 0 /\ broadcasted'[b]
          BY <2>2, <2>4, <3>1, <3>3
        <4>2. broadcasts'[b] = 1
          BY <3>3, <4>1
        <4> QED
          BY <2>1, <2>4, <4>1, <4>2 DEF OutOnce
      <3> QED
        BY <2>4, <3>2, <3>3
    <2>6. ASSUME NEW x \in Block, x # b PROVE OutOnce(x)'
      BY <2>1, <2>4, <2>6 DEF BroadcastInv, OutOnce
    <2> QED
      BY <2>1, <2>3, <2>4, <2>5, <2>6 DEF BroadcastInv
  <1>8. ASSUME FinishVerifyLoop PROVE BroadcastInv'
    <2>1. CASE highest = NoBlock
      BY <1>1, <1>8, <2>1 DEF FinishVerifyLoop, updateTipVars, storeVars, tipVars, blockVars
    <2>2. CASE highest # NoBlock
      <3>1. highest \in blocksById
        BY <2>2 DEF NoDanglingPointer, Stored
      <3> QED
        BY <1>8, <2>2, <3>1, TipBroadcastStep DEF FinishVerifyLoop
    <2> QED
      BY <2>1, <2>2
  <1>9. ASSUME FinishUpdateDepths PROVE BroadcastInv'
    <2>1. newBlock \in blocksById
      BY <1>9 DEF FinishUpdateDepths, ControlOK, NoDanglingPointer, Stored
    <2>2. CASE verified[newBlock] /\ ~invalid[newBlock]
      BY <1>9, <2>1, <2>2, TipBroadcastStep DEF FinishUpdateDepths
    <2>3. CASE ~verified[newBlock] \/ invalid[newBlock]
      BY <1>1, <1>9, <2>3 DEF FinishUpdateDepths, updateTipVars, storeVars, tipVars, blockVars
    <2> QED
      BY <2>2, <2>3
  <1>10. ASSUME UpdateBlockTemplate \/ MainchainAdvances \/ TimePasses PROVE BroadcastInv'
    BY <1>1, <1>10 DEF UpdateBlockTemplate, MainchainAdvances, TimePasses, storeVars, tipVars,
       blockVars
  <1>11. CASE UNCHANGED vars
    BY <1>1, <1>11 DEF vars, storeVars, tipVars, blockVars
  <1> QED
    BY <1>2, <1>3, <1>4, <1>5, <1>6, <1>7, <1>8, <1>9, <1>10, <1>11
       DEF Next, Worker, LockHolder

\* verify_loop and update_chain_tip both broadcast, for the same block at different times:
\* as long as no pointer dangles, a block still goes out at most once and only when it is
\* verified and valid, and the chain tip has been offered, also for blocks that are deleted
\* and come again.
THEOREM BlocksGoOutOnce == Spec /\ []NoDanglingPointer => []BroadcastDiscipline
  <1>1. Init => BroadcastInv
    BY DEF Init, BroadcastInv, OutOnce
  <1>2. /\ TypeOK /\ ControlOK /\ StoreInv
        /\ NoDanglingPointer /\ TipIsGood /\ BroadcastInv /\ [Next]_vars
        => BroadcastInv'
    BY BroadcastStep
  <1>3. BroadcastInv => BroadcastDiscipline
    BY DEF BroadcastInv, OutOnce, BroadcastDiscipline
  <1> QED
    BY <1>1, <1>2, <1>3, StoreInvariant, TipStaysGood, PTL DEF Spec

-----------------------------------------------------------------------------
(* Nothing is forgotten: what verify_loop leaves unverified can not be     *)
(* verified.                                                               *)

\* Sets of numbers have a least element
LEMMA LeastNumber ==
    ASSUME NEW T, T \subseteq Nat, T # {}
    PROVE  \E x \in T : \A y \in T : x <= y
  <1>1. \E R : IsWellFoundedOn(R, Nat) /\ \A x, y \in Nat : y < x => <<y, x>> \in R
    <2>1. IsWellFoundedOn(OpToRel(<, Nat), Nat)
      BY NatLessThanWellFounded
    <2>2. \A x, y \in Nat : y < x => <<y, x>> \in OpToRel(<, Nat)
      BY DEF OpToRel
    <2> QED
      BY <2>1, <2>2, Zenon
  <1>2. PICK R : IsWellFoundedOn(R, Nat) /\ \A x, y \in Nat : y < x => <<y, x>> \in R
    BY <1>1
  <1>3. PICK x \in T : \A y \in T : ~(<<y, x>> \in R)
    BY <1>2, WFMin
  <1>4. ASSUME NEW y \in T PROVE x <= y
    <2>1. x \in Nat /\ y \in Nat /\ ~(y < x)
      BY <1>2, <1>3
    <2> QED
      BY <2>1
  <1> QED
    BY <1>4

\* The blocks a block builds on
Refs(b) == {Parent(b)} \cup Uncles(b)

\* Heights are what fill_sidechain_data makes them
HonestHeights ==
    \A b \in Block :
      /\ Parent(b) # NoBlock => Height(b) = Height(Parent(b)) + 1
      /\ \A u \in Uncles(b) : Height(u) < Height(b) /\ Height(b) <= Height(u) + UncleDepth

\* No block that builds on a block of ours is here before add_block has stored ours: other
\* nodes learn of it from the broadcast that follows.  (Later they build on it as on any.)
OwnComeFirst == \A o \in Block : work[o] = "own" => \A b \in blocksById : o \notin Refs(b)

Available(x) == x \in blocksById /\ verified[x] /\ ~invalid[x]
Ready(b) == \A x \in Refs(b) \ {NoBlock} : Available(x)

\* The lock holder is going to look at b
Waiting(b) ==
    \/ pc = "verify" /\ \E e \in toVerify : e[2] = b
    \/ b = newBlock /\ pc # "unlocked" /\ (pc = "verify" => returnTo = "propagate")

ReadyInv ==
    /\ \A b \in blocksById : ~verified[b] /\ Ready(b) => Waiting(b)
    /\ pc # "verify" => toVerify = {}
    /\ \A b \in Block : work[b] = "own" => b \in Own

LEMMA RefTypes ==
    ASSUME NEW b \in Block
    PROVE  /\ Info[b].uncles \in Seq(Block) /\ Uncles(b) \subseteq Block
           /\ Refs(b) \subseteq Block \cup {NoBlock} /\ NoBlock \notin Block
  <1>1. Info[b] \in InfoType /\ NoBlock \notin Block
    BY ConstantsAssumption DEF NoBlock
  <1>2. Info[b].uncles \in Seq(Block)
    BY <1>1 DEF InfoType
  <1>3. Uncles(b) \subseteq Block
    BY <1>2 DEF Uncles, ToSet
  <1> QED
    BY <1>1, <1>2, <1>3, InfoTypes DEF Refs

\* The heights of the blocks above those they refer to
LEMMA RefHeights ==
    ASSUME HonestHeights, NEW b \in Block, NEW x \in Refs(b) \ {NoBlock}
    PROVE  /\ x \in Block /\ Height(x) \in Nat /\ Height(b) \in Nat
           /\ Height(b) - Height(x) \in 1 .. UncleDepth
  <1>1. x \in Block /\ Height(x) \in Nat /\ Height(b) \in Nat
    BY RefTypes, InfoTypes
  <1>2. UncleDepth \in Nat /\ UncleDepth >= 1
    BY ConstantsAssumption
  <1>3. \/ Height(b) = Height(x) + 1
        \/ Height(x) < Height(b) /\ Height(b) <= Height(x) + UncleDepth
    BY DEF HonestHeights, Refs
  <1> QED
    BY <1>1, <1>2, <1>3

\* verify decides about a block whose parent and uncles are verified and valid
LEMMA ReadyVerdict ==
    ASSUME TypeOK, HonestHeights, NEW b \in Block, Ready(b)
    PROVE  Verdict(b) \in {"valid", "invalid"}
  <1> DEFINE us == Info[b].uncles
             failed == {i \in DOMAIN us : UncleVerdict(b, us[i]) # "valid"}
  <1>1. ASSUME NEW u \in Uncles(b) PROVE UncleVerdict(b, u) \in {"valid", "invalid"}
    <2>1. u \in blocksById /\ verified[u]
      BY RefTypes DEF Ready, Available, Refs
    <2> QED
      BY <2>1 DEF UncleVerdict
  <1>2. UnclesVerdict(b) \in {"valid", "invalid"}
    <2>1. CASE ~Sorted(us) \/ failed = {}
      BY <2>1 DEF UnclesVerdict
    <2>2. CASE Sorted(us) /\ failed # {}
      <3>1. failed \subseteq DOMAIN us /\ DOMAIN us \subseteq Nat
        BY RefTypes
      <3> HIDE DEF failed
      <3>2. Min(failed) \in failed
        BY <2>2, <3>1, LeastNumber DEF Min
      <3>3. us[Min(failed)] \in Uncles(b)
        BY <3>1, <3>2 DEF Uncles, ToSet
      <3>4. UnclesVerdict(b) = UncleVerdict(b, us[Min(failed)])
        BY <2>2 DEF UnclesVerdict, failed
      <3> QED
        BY <1>1, <3>3, <3>4
    <2> QED
      BY <2>1, <2>2
  <1>3. CASE Height(b) = 0 \/ depth[b] >= 2 * Window \/ Parent(b) = NoBlock
    BY <1>3 DEF Verdict
  <1>4. CASE Height(b) # 0 /\ ~(depth[b] >= 2 * Window) /\ Parent(b) # NoBlock
    <2>1. Available(Parent(b)) /\ Height(b) = Height(Parent(b)) + 1
      BY <1>4 DEF Ready, Refs, HonestHeights
    <2> QED
      BY <1>2, <1>4, <2>1 DEF Verdict, Available
  <1> QED
    BY <1>3, <1>4

\* update_chain_tip makes nothing available
LEMMA PruneKeepsUnready ==
    ASSUME TypeOK, NEW b \in Block, UpdateChainTip(b), NEW c \in blocksById',
           ~verified'[c], Ready(c)'
    PROVE  c \in blocksById /\ ~verified[c] /\ Ready(c)
  <1>1. CASE UNCHANGED updateTipVars
    BY <1>1 DEF Ready, Available, Refs, updateTipVars, storeVars, blockVars, Parent, Uncles
  <1>2. ASSUME ~UNCHANGED updateTipVars PROVE c \in blocksById /\ ~verified[c] /\ Ready(c)
    <2> DEFINE gone == IF BecomesTip(b) THEN Prunable(b) ELSE {}
    <2>1. Prune(gone)
      BY <1>2 DEF UpdateChainTip
    <2> HIDE DEF gone
    <2>2. /\ blocksById' = blocksById \ gone /\ blocksById \subseteq Block
          /\ \A x \in Block : /\ verified'[x] = (x \notin gone /\ verified[x])
                              /\ invalid'[x] = (x \notin gone /\ invalid[x])
      BY <2>1 DEF Prune, TypeOK
    <2>3. c \in blocksById /\ c \notin gone /\ c \in Block /\ ~verified[c]
      BY <2>2
    <2>4. ASSUME NEW x \in Refs(c) \ {NoBlock} PROVE Available(x)
      <3>1. x \in blocksById' /\ verified'[x] /\ ~invalid'[x]
        BY DEF Ready, Available, Refs, Parent, Uncles
      <3> QED
        BY <2>2, <3>1 DEF Available
    <2> QED
      BY <2>3, <2>4 DEF Ready
  <1> QED
    BY <1>1, <1>2

LEMMA ReadyStep ==
    ASSUME HonestHeights, OwnComeFirst, TypeOK, ControlOK, StoreInv, ReadyInv, [Next]_vars
    PROVE  ReadyInv'
  <1> USE DEF Ready, Available, Waiting
  <1>0. \A c : Refs(c)' = Refs(c)
    BY DEF Refs, Parent, Uncles
  <1>1. ASSUME UNCHANGED <<blocksById, verified, invalid, newBlock, pc, returnTo, toVerify>>,
               \A b \in Block : work'[b] = "own" => b \in Own
        PROVE  ReadyInv'
    BY <1>0, <1>1 DEF ReadyInv
  <1>2. ASSUME NEW b \in Block, Receive(b) \/ SubmitOwnBlock(b) \/ CheckBlock(b)
                                \/ RejectBlock(b) \/ RetryLater(b)
        PROVE  ReadyInv'
    <2>1. /\ UNCHANGED checkUnchanged
          /\ \E w \in {"none", "check", "add", "own"} :
               work' = [work EXCEPT ![b] = w] /\ (w = "own" => b \in Own)
      BY <1>2 DEF Receive, SubmitOwnBlock, CheckBlock, RejectBlock, RetryLater, TypeOK
    <2>2. \A x \in Block : work'[x] = "own" => x \in Own
      BY <2>1 DEF ReadyInv, TypeOK
    <2> QED
      BY <1>1, <2>1, <2>2 DEF checkUnchanged, blockVars, callVars
  <1>3. ASSUME NEW b \in Block, AddBlock(b) PROVE ReadyInv'
    <2>1. b \notin blocksById /\ pc = "unlocked" /\ toVerify = {}
      BY <1>3 DEF AddBlock, StoreInv, NeverAddedTwice, ReadyInv
    <2>2. /\ blocksById' = blocksById \cup {b} /\ newBlock' = b /\ pc' = "depths"
          /\ verified' = [verified EXCEPT ![b] = work[b] = "own"]
          /\ work' = [work EXCEPT ![b] = "none"]
          /\ UNCHANGED <<invalid, toVerify>>
      BY <1>3, <2>1 DEF AddBlock
    <2>3. ASSUME NEW c \in blocksById', ~verified'[c], Ready(c)' PROVE c = b
      <3>1. SUFFICES ASSUME c # b PROVE FALSE
        OBVIOUS
      <3>2. c \in blocksById /\ c \in Block /\ ~verified[c]
        BY <2>2, <2>3, <3>1 DEF TypeOK
      <3>3. ASSUME NEW x \in Refs(c) \ {NoBlock} PROVE Available(x)
        <4>1. x \in blocksById' /\ verified'[x] /\ ~invalid'[x] /\ x \in Block
          BY <1>0, <2>3, <3>2, RefTypes
        <4>2. x # b
          <5>1. work[b] = "own" => b \notin Refs(c)
            BY <3>2 DEF OwnComeFirst
          <5>2. verified'[b] <=> work[b] = "own"
            BY <2>2 DEF TypeOK
          <5> QED
            BY <4>1, <5>1, <5>2
        <4> QED
          BY <2>2, <4>1, <4>2
      <3> QED
        BY <2>1, <3>2, <3>3 DEF ReadyInv
    <2>4. \A x \in Block : work'[x] = "own" => x \in Own
      BY <2>2 DEF ReadyInv, TypeOK
    <2> QED
      BY <2>1, <2>2, <2>3, <2>4 DEF ReadyInv
  <1>4. ASSUME NEW e \in toUpdate, PopToUpdate(e) PROVE ReadyInv'
    <2>1. /\ pc = "depths" /\ toVerify = {}
          /\ UNCHANGED <<blocksById, verified, invalid, newBlock, work>>
          /\ \/ pc' = "verify" /\ returnTo' = "propagate"
             \/ pc' = "propagate" /\ toVerify' = {}
      BY <1>4 DEF PopToUpdate, startVerifyUnchanged, storeVars, blockVars, ReadyInv
    <2> QED
      BY <1>0, <2>1 DEF ReadyInv
  <1>5. ASSUME Propagate PROVE ReadyInv'
    <2>1. /\ pc = "propagate" /\ pc' = "depths"
          /\ UNCHANGED <<blocksById, verified, invalid, newBlock, work, toVerify>>
      BY <1>5 DEF Propagate, storeVars
    <2> QED
      BY <1>0, <2>1 DEF ReadyInv
  <1>6. ASSUME NEW e \in toVerify, VerifyFails(e) PROVE ReadyInv'
    <2>1. /\ pc = "verify" /\ e[2] \in Block /\ toVerify' = toVerify \ {e}
          /\ UNCHANGED <<blocksById, newBlock, pc, returnTo, work>>
          /\ verified[e[2]] \/ Verdict(e[2]) # "valid"
          /\ verified' = [verified EXCEPT ![e[2]] = @ \/ Verdict(e[2]) = "invalid"]
          /\ invalid' = [invalid EXCEPT ![e[2]] =
               @ \/ (~verified[e[2]] /\ Verdict(e[2]) \in {"invalid", "wrong height"})]
      BY <1>6 DEF VerifyFails, verifyUnchanged, storeVars, TypeOK
    <2>2. ASSUME NEW c \in blocksById', ~verified'[c], Ready(c)' PROVE Waiting(c)'
      <3>1. c \in blocksById /\ c \in Block /\ ~verified[c]
        BY <2>1, <2>2 DEF TypeOK
      <3>2. ASSUME NEW x \in Refs(c) \ {NoBlock} PROVE Available(x)
        <4>1. x \in blocksById' /\ verified'[x] /\ ~invalid'[x] /\ x \in Block
          BY <1>0, <2>2, <3>1, RefTypes
        <4>2. x \in blocksById /\ verified[x] /\ ~invalid[x]
          BY <2>1, <4>1 DEF TypeOK
        <4> QED
          BY <4>2
      <3>3. Ready(c) /\ Waiting(c)
        BY <3>1, <3>2 DEF ReadyInv
      <3>4. c # e[2]
        <4>1. SUFFICES ASSUME c = e[2] PROVE FALSE
          OBVIOUS
        <4>2. Verdict(c) \in {"valid", "invalid"}
          BY <3>1, <3>3, ReadyVerdict
        <4> QED
          BY <2>1, <2>2, <3>1, <4>1, <4>2 DEF TypeOK
      <3> QED
        BY <2>1, <3>3, <3>4
    <2> QED
      BY <2>1, <2>2 DEF ReadyInv
  <1>7. ASSUME NEW e \in toVerify, VerifyPasses(e) PROVE ReadyInv'
    <2> DEFINE b == e[2]
    <2>1. /\ pc = "verify" /\ b \in Block /\ e[1] \in Nat
          /\ toVerify' = (toVerify \ {e}) \cup Above(e[1], b)
          /\ UNCHANGED <<blocksById, newBlock, pc, returnTo, work>>
          /\ verified' = [verified EXCEPT ![b] = TRUE]
          /\ invalid' = [invalid EXCEPT ![b] = FALSE]
      BY <1>7 DEF VerifyPasses, verifyUnchanged, storeVars, TypeOK
    <2>2. ASSUME NEW c \in blocksById', ~verified'[c], Ready(c)' PROVE Waiting(c)'
      <3>1. c \in blocksById /\ c \in Block /\ ~verified[c] /\ c # b
        BY <2>1, <2>2 DEF TypeOK
      <3>2. CASE b \in Refs(c)
        <4>1. Height(c) - Height(b) \in 1 .. UncleDepth /\ Height(b) \in Nat /\ Height(c) \in Nat
          BY <2>1, <3>1, <3>2, RefHeights, RefTypes
        <4> DEFINE i == Height(c) - Height(b)
        <4>2. i \in 1 .. UncleDepth /\ Height(b) + i = Height(c)
          BY <4>1
        <4>3. c \in blocksByHeight[Height(b) + i]
          BY <3>1, <4>2 DEF StoreInv, IndexesAgree
        <4> HIDE DEF i
        <4>4. <<e[1] + i, c>> \in Above(e[1], b)
          BY <4>2, <4>3 DEF Above
        <4>5. <<e[1] + i, c>> \in toVerify'
          BY <2>1, <4>4
        <4> DEFINE f == <<e[1] + i, c>>
        <4>6. f \in toVerify' /\ f[2] = c
          BY <4>5
        <4> HIDE DEF f
        <4> QED
          BY <2>1, <4>6
      <3>3. CASE b \notin Refs(c)
        <4>1. ASSUME NEW x \in Refs(c) \ {NoBlock} PROVE Available(x)
          <5>1. x \in blocksById' /\ verified'[x] /\ ~invalid'[x] /\ x \in Block /\ x # b
            BY <1>0, <2>2, <3>1, <3>3, RefTypes
          <5> QED
            BY <2>1, <5>1
        <4>2. Waiting(c)
          BY <3>1, <4>1 DEF ReadyInv
        <4> QED
          BY <2>1, <3>1, <4>2
      <3> QED
        BY <3>2, <3>3
    <2> QED
      BY <2>1, <2>2 DEF ReadyInv
  <1>8. ASSUME FinishVerifyLoop PROVE ReadyInv'
    <2>1. /\ pc = "verify" /\ toVerify = {} /\ pc' = returnTo
          /\ newBlock' = IF returnTo = "unlocked" THEN NoBlock ELSE newBlock
          /\ UNCHANGED <<toVerify, returnTo, work>>
          /\ IF highest = NoBlock THEN UNCHANGED updateTipVars ELSE UpdateChainTip(highest)
      BY <1>8 DEF FinishVerifyLoop
    <2>2. ASSUME NEW c \in blocksById', ~verified'[c], Ready(c)'
          PROVE  c \in blocksById /\ ~verified[c] /\ Ready(c)
      <3>1. CASE highest = NoBlock
        BY <1>0, <2>1, <2>2, <3>1 DEF updateTipVars, storeVars, blockVars
      <3>2. CASE highest # NoBlock
        <4>1. highest \in Block
          BY <3>2 DEF TypeOK
        <4> HIDE DEF Ready, Available, Waiting
        <4> QED
          BY <2>1, <2>2, <3>2, <4>1, PruneKeepsUnready
      <3> QED
        BY <3>1, <3>2
    <2>3. returnTo \in {"unlocked", "propagate"}
      BY DEF TypeOK
    <2>4. ASSUME NEW c \in blocksById', ~verified'[c], Ready(c)' PROVE Waiting(c)'
      <3>1. Waiting(c)
        BY <2>2, <2>4 DEF ReadyInv
      <3> QED
        BY <2>1, <2>3, <3>1
    <2> QED
      BY <2>1, <2>4 DEF ReadyInv
  <1>9. ASSUME FinishUpdateDepths PROVE ReadyInv'
    <2>0. /\ pc = "depths" /\ toVerify = {} /\ newBlock \in Block /\ UNCHANGED work
      BY <1>9 DEF FinishUpdateDepths, ReadyInv, ControlOK, TypeOK
    <2>1. CASE verified[newBlock]
      <3>1. /\ pc' = "unlocked" /\ UNCHANGED toVerify
            /\ UNCHANGED updateTipVars \/ UpdateChainTip(newBlock)
        BY <1>9, <2>1 DEF FinishUpdateDepths
      <3>2. ASSUME NEW c \in blocksById', ~verified'[c], Ready(c)'
            PROVE  c \in blocksById /\ ~verified[c] /\ Ready(c)
        <4>1. CASE UNCHANGED updateTipVars
          BY <1>0, <3>2, <4>1 DEF updateTipVars, storeVars, blockVars
        <4>2. CASE UpdateChainTip(newBlock)
          <5> HIDE DEF Ready, Available, Waiting
          <5> QED
            BY <2>0, <3>2, <4>2, PruneKeepsUnready
        <4> QED
          BY <3>1, <4>1, <4>2
      <3>3. ASSUME NEW c \in blocksById', ~verified'[c], Ready(c)' PROVE FALSE
        <4>1. Waiting(c) /\ ~verified[c]
          BY <3>2, <3>3 DEF ReadyInv
        <4> QED
          BY <2>0, <2>1, <4>1
      <3> QED
        BY <2>0, <3>1, <3>3 DEF ReadyInv
    <2>2. CASE ~verified[newBlock]
      <3>1. /\ pc' = "verify" /\ toVerify' = {<<1, newBlock>>} /\ UNCHANGED updateTipVars
        BY <1>9, <2>2 DEF FinishUpdateDepths
      <3>2. ASSUME NEW c \in blocksById', ~verified'[c], Ready(c)' PROVE Waiting(c)'
        <4>1. Waiting(c)
          BY <1>0, <3>1, <3>2 DEF ReadyInv, updateTipVars, storeVars, blockVars
        <4>2. c = newBlock
          BY <2>0, <4>1
        <4>3. <<1, newBlock>> \in toVerify' /\ <<1, newBlock>>[2] = c
          BY <3>1, <4>2
        <4> QED
          BY <3>1, <4>3
      <3> QED
        BY <2>0, <3>1, <3>2 DEF ReadyInv
    <2> QED
      BY <2>1, <2>2
  <1>10. ASSUME UpdateBlockTemplate \/ MainchainAdvances \/ TimePasses PROVE ReadyInv'
    BY <1>1, <1>10 DEF UpdateBlockTemplate, MainchainAdvances, TimePasses, storeVars,
       blockVars, callVars, ReadyInv
  <1>11. CASE UNCHANGED vars
    BY <1>1, <1>11 DEF vars, storeVars, blockVars, callVars, ReadyInv
  <1> QED
    BY <1>2, <1>3, <1>4, <1>5, <1>6, <1>7, <1>8, <1>9, <1>10, <1>11
       DEF Next, Worker, LockHolder

\* The lowest unverified block misses its parent or an uncle, and get_missing_blocks names it
LEMMA LowestOrphanIsRequested ==
    ASSUME HonestHeights, TypeOK, ReadyInv, pc = "unlocked",
           NEW o \in blocksById, ~verified[o], \A b \in blocksById : ~invalid[b]
    PROVE  MissingBlocks # {}
  <1> DEFINE Orphans == {b \in blocksById : ~verified[b]}
             H == {Height(b) : b \in Orphans}
  <1>1. H \subseteq Nat /\ H # {}
    BY InfoTypes DEF TypeOK
  <1>2. PICK b \in Orphans : \A c \in Orphans : Height(b) <= Height(c)
    <2>1. \A c \in Orphans : Height(c) \in H
      OBVIOUS
    <2>2. PICK h \in H : \A k \in H : h <= k
      <3> HIDE DEF H
      <3> QED
        BY <1>1, LeastNumber
    <2>3. PICK b \in Orphans : h = Height(b)
      OBVIOUS
    <2> HIDE DEF H, Orphans
    <2> QED
      BY <2>1, <2>2, <2>3
  <1>3. b \in blocksById /\ b \in Block /\ ~verified[b] /\ ~Ready(b)
    BY DEF TypeOK, ReadyInv, Waiting
  <1>4. PICK x \in Refs(b) \ {NoBlock} : ~Available(x)
    BY <1>3 DEF Ready
  <1>5. Height(x) < Height(b)
    BY <1>3, RefHeights
  <1>6. x \notin blocksById
    <2>1. SUFFICES ASSUME x \in blocksById PROVE FALSE
      OBVIOUS
    <2>2. x \in Orphans
      BY <1>4, <2>1 DEF Available
    <2> QED
      BY <1>2, <1>3, <1>5, <2>2, RefHeights
  <1>7. CASE x = Parent(b)
    BY <1>3, <1>4, <1>6, <1>7 DEF MissingBlocks
  <1>8. CASE x \in Uncles(b)
    <2> DEFINE us == Info[b].uncles
               missing == {i \in DOMAIN us : us[i] \notin blocksById}
    <2>1. missing \subseteq Nat /\ missing # {}
      BY <1>3, <1>6, <1>8, RefTypes DEF Uncles, ToSet
    <2>2. PICK k \in missing : \A j \in missing : k <= j
      BY <2>1, LeastNumber
    <2>3. {j \in missing : j < k} = {}
      BY <2>1, <2>2
    <2>4. Cardinality({j \in missing : j < k}) = 0
      BY <2>3, FS_EmptySet
    <2> DEFINE First == {i \in missing : Cardinality({j \in missing : j < i}) < 2}
    <2>5. k \in First
      <3> HIDE DEF missing
      <3> QED
        BY <2>2, <2>4
    <2>6. MissingUncles(b) = {us[i] : i \in First}
      BY DEF MissingUncles
    <2>7. us[k] \in MissingUncles(b)
      <3> HIDE DEF First, us
      <3> QED
        BY <2>5, <2>6
    <2> QED
      BY <1>3, <2>7 DEF MissingBlocks
  <1> QED
    BY <1>4, <1>7, <1>8 DEF Refs

\* In whatever order the blocks of a tree with honest heights come, also when blocks are
\* deleted and come again, and as long as no block arrives before the block of ours that it
\* builds on (others know it from our broadcast only): once add_block has returned, verify_loop has verified what can be
\* verified, and as long as none is invalid get_missing_blocks asks for a block that an
\* unverified one lacks.
THEOREM NothingIsLeftBehind ==
    HonestHeights => (Spec /\ []OwnComeFirst => []NothingIsForgotten)
  <1> SUFFICES ASSUME HonestHeights PROVE Spec /\ []OwnComeFirst => []NothingIsForgotten
    OBVIOUS
  <1>1. Init => ReadyInv
    BY DEF Init, ReadyInv
  <1>2. TypeOK /\ ControlOK /\ StoreInv /\ OwnComeFirst /\ ReadyInv /\ [Next]_vars => ReadyInv'
    BY ReadyStep
  <1>3. TypeOK /\ ReadyInv => NothingIsForgotten
    <2> SUFFICES ASSUME TypeOK, ReadyInv PROVE NothingIsForgotten
      OBVIOUS
    <2>1. UnverifiedMeansUnavailable
      <3> SUFFICES ASSUME pc = "unlocked", NEW b \in blocksById, ~verified[b]
                   PROVE  \E x \in Refs(b) : x \notin blocksById \/ ~verified[x] \/ invalid[x]
        BY DEF UnverifiedMeansUnavailable, Refs
      <3>1. ~Ready(b)
        BY DEF ReadyInv, Waiting
      <3> QED
        BY <3>1 DEF Ready, Available
    <2>2. OrphansAreRequested
      BY LowestOrphanIsRequested DEF OrphansAreRequested
    <2> QED
      BY <2>1, <2>2 DEF NothingIsForgotten
  <1> QED
    BY <1>1, <1>2, <1>3, StoreInvariant, PTL DEF Spec

-----------------------------------------------------------------------------
(* Depths.  With honest heights, the depth of a block and its height add   *)
(* up to the height of the highest block known above it, and update_depths *)
(* carries that height down.                                               *)

\* Depths do not wrap around
DepthsFit == TopHeight < DepthModulus

Reach(x) == depth[x] + Height(x)

\* Its new depth has not been handed down to its parent and uncles yet
Pending(c) == c = cur \/ \E e \in toUpdate : e[2] = c

DepthControl ==
    /\ pc \in {"unlocked", "depths"} => cur = NoBlock
    /\ pc = "unlocked" => toUpdate = {}
    /\ pc = "verify" /\ returnTo = "unlocked" => cur = NoBlock /\ toUpdate = {}
    /\ ~Aging => aged = {}

HandedDown ==
    \A c \in blocksById : ~Pending(c) =>
      \A x \in Refs(c) \cap blocksById : Reach(c) <= Reach(x)

ComesFrom(x, c) ==
    c \in blocksById /\ x \in Refs(c) /\ (Reach(x) = Reach(c) \/ (Reach(x) <= Reach(c) /\ Pending(c)))

DepthInv ==
    /\ \A x \in Block : Reach(x) <= TopHeight
    /\ HandedDown
    /\ ~Aging => \A x \in blocksById : depth[x] > 0 => \E c \in blocksById : ComesFrom(x, c)

LEMMA SmallDepth ==
    ASSUME DepthsFit, NEW n \in Nat, n <= TopHeight
    PROVE  AsDepth(n) = n
  <1>1. DepthModulus \in Nat /\ TopHeight \in Nat /\ n < DepthModulus /\ DepthModulus > 0
    BY ConstantsAssumption DEF DepthsFit
  <1> QED
    BY <1>1 DEF AsDepth

\* What update_depths hands down
LEMMA RaisedReach ==
    ASSUME HonestHeights, DepthsFit, TypeOK, NEW c \in Block, NEW x \in Refs(c) \ {NoBlock},
           Reach(c) <= TopHeight
    PROVE  /\ x \in Block /\ Height(x) \in Nat /\ Height(c) \in Nat /\ Height(x) < Height(c)
           /\ RaisedDepth(c, x) = depth[c] + Height(c) - Height(x)
           /\ RaisedDepth(c, x) \in Nat /\ RaisedDepth(c, x) + Height(x) = Reach(c)
  <1>1. /\ x \in Block /\ Height(x) \in Nat /\ Height(c) \in Nat
        /\ Height(c) - Height(x) \in 1 .. UncleDepth /\ UncleDepth \in Nat
    BY RefHeights, ConstantsAssumption
  <1>2. depth[c] \in Nat
    BY DEF TypeOK
  <1>3. Height(x) < Height(c)
    BY <1>1
  <1>4. (IF x = Parent(c) THEN 1 ELSE Height(c) - Height(x)) = Height(c) - Height(x)
    BY <1>1 DEF HonestHeights
  <1> DEFINE n == depth[c] + (Height(c) - Height(x))
  <1>5. n \in Nat /\ n <= TopHeight /\ n = depth[c] + Height(c) - Height(x) /\ n + Height(x) = Reach(c)
    <2>1. TopHeight \in Nat
      BY ConstantsAssumption
    <2> QED
      BY <1>1, <1>2, <1>3, <2>1 DEF Reach
  <1>6. RaisedDepth(c, x) = AsDepth(n)
    BY <1>4 DEF RaisedDepth
  <1>7. AsDepth(n) = n
    <2> HIDE DEF n
    <2> QED
      BY <1>5, SmallDepth
  <1> QED
    BY <1>1, <1>3, <1>5, <1>6, <1>7

\* update_chain_tip: a deleted block that another one has its depth from goes with it
LEMMA PruneDepths ==
    ASSUME HonestHeights, TypeOK, StoreInv, DepthControl, DepthInv, NoDanglingPointer',
           NEW b \in Block, UpdateChainTip(b), UNCHANGED toUpdate, UNCHANGED cur
    PROVE  DepthInv' /\ aged' \subseteq aged
  <1>1. CASE UNCHANGED updateTipVars
    BY <1>1 DEF DepthInv, HandedDown, ComesFrom, Reach, Refs, Pending, updateTipVars, storeVars,
       blockVars, Parent, Uncles, Height
  <1>2. ASSUME ~UNCHANGED updateTipVars PROVE DepthInv' /\ aged' \subseteq aged
    <2> DEFINE gone == IF BecomesTip(b) THEN Prunable(b) ELSE {}
    <2>1. Prune(gone)
      BY <1>2 DEF UpdateChainTip
    <2>2. gone \subseteq Prunable(b)
      OBVIOUS
    <2>10. gone = {} \/ gone = Prunable(b)
      OBVIOUS
    <2> HIDE DEF gone
    <2>3. /\ blocksById' = blocksById \ gone /\ aged' = aged \ gone /\ blocksById \subseteq Block
          /\ \A x \in Block : depth'[x] = IF x \in gone THEN 0 ELSE depth[x]
      BY <2>1 DEF Prune, TypeOK
    <2>4. \A x : Refs(x)' = Refs(x) /\ Height(x)' = Height(x)
      BY DEF Refs, Parent, Uncles, Height
    <2>5. \A x \in Block : depth[x] \in Nat /\ Height(x) \in Nat
      BY InfoTypes DEF TypeOK
    <2>6. \A x \in Block : /\ Reach(x)' <= TopHeight
                           /\ x \notin gone => Reach(x)' = Reach(x) /\ depth'[x] = depth[x]
      <3> SUFFICES ASSUME NEW x \in Block
                   PROVE  /\ Reach(x)' <= TopHeight
                          /\ x \notin gone => Reach(x)' = Reach(x) /\ depth'[x] = depth[x]
        OBVIOUS
      <3>1. Height(x) <= TopHeight /\ TopHeight \in Nat
        BY InfoTypes, ConstantsAssumption
      <3> QED
        BY <2>3, <2>4, <2>5, <3>1 DEF Reach, DepthInv
    <2>7. \A c : Pending(c)' = Pending(c)
      BY DEF Pending
    <2>8. HandedDown'
      BY <2>3, <2>4, <2>6, <2>7 DEF DepthInv, HandedDown
    <2>9. ASSUME ~Aging, NEW x \in blocksById', depth'[x] > 0
          PROVE  \E c \in blocksById' : ComesFrom(x, c)'
      <3>1. x \in blocksById /\ x \in Block /\ x \notin gone /\ depth[x] > 0
        BY <2>3, <2>9
      <3>2. PICK c \in blocksById : ComesFrom(x, c)
        BY <2>9, <3>1 DEF DepthInv
      <3>3. c \in Block /\ x \in Refs(c) \ {NoBlock}
        BY <3>1, <3>2, RefTypes DEF TypeOK, ComesFrom
      <3>4. c \notin gone
        <4> SUFFICES ASSUME c \in gone PROVE FALSE
          OBVIOUS
        <4>1. PruneDistance \in Nat
          BY ConstantsAssumption DEF PruneDistance
        <4>2. /\ depth[c] >= PruneDistance
              /\ \E h \in 0 .. TopHeight : h + PruneDistance <= Height(b) /\ c \in blocksByHeight[h]
          BY <2>2, <2>9 DEF Prunable, DepthControl
        <4>3. Height(c) + PruneDistance <= Height(b)
          BY <4>2 DEF StoreInv, IndexesAgree
        <4>4. Height(x) < Height(c) /\ Height(b) \in Nat
          BY <3>3, RefHeights, InfoTypes
        <4>5. CASE Reach(x) = Reach(c)
          <5>1. depth[x] >= PruneDistance /\ Height(x) + PruneDistance <= Height(b)
            BY <2>5, <3>1, <3>3, <4>1, <4>2, <4>3, <4>4, <4>5 DEF Reach
          <5>2. x \in blocksByHeight[Height(x)] /\ Height(x) \in 0 .. TopHeight
            BY <3>1, InfoTypes DEF StoreInv, IndexesAgree
          <5>3. x \in Prunable(b)
            BY <5>1, <5>2 DEF Prunable
          <5> QED
            BY <2>10, <3>1, <5>3
        <4>6. CASE Pending(c)
          <5>1. c # NoBlock /\ Pending(c)'
            BY <2>7, <3>3, <4>6, RefTypes
          <5>2. c \in blocksById'
            BY <5>1 DEF Pending, NoDanglingPointer, Stored
          <5> QED
            BY <2>3, <5>2
        <4> QED
          BY <3>2, <4>5, <4>6 DEF ComesFrom
      <3>5. ComesFrom(x, c)'
        <4>1. /\ Reach(x)' = Reach(x) /\ Reach(c)' = Reach(c) /\ Pending(c)' = Pending(c)
              /\ Refs(c)' = Refs(c) /\ c \in blocksById'
          BY <2>3, <2>4, <2>6, <2>7, <3>1, <3>3, <3>4
        <4> QED
          BY <3>2, <4>1 DEF ComesFrom
      <3> QED
        BY <2>3, <3>4, <3>5
    <2> QED
      BY <2>3, <2>6, <2>8, <2>9 DEF DepthInv
  <1> QED
    BY <1>1, <1>2

\* add_block: the new block takes its depth from the blocks above it
LEMMA AddDepths ==
    ASSUME HonestHeights, DepthsFit, TypeOK, StoreInv, DepthControl, DepthInv,
           NEW b \in Block, AddBlock(b)
    PROVE  DepthControl' /\ DepthInv'
  <1>1. b \notin blocksById /\ pc = "unlocked" /\ cur = NoBlock /\ toUpdate = {}
    BY DEF AddBlock, StoreInv, NeverAddedTwice, DepthControl
  <1>2. /\ blocksById' = blocksById \cup {b} /\ pc' = "depths" /\ toUpdate' = {<<1, b>>}
        /\ UNCHANGED <<cur, aged>>
    BY <1>1 DEF AddBlock
  <1>3. PICK d \in {0} \cup DepthsFromAbove(b) :
          /\ \A e \in {0} \cup DepthsFromAbove(b) : e <= d
          /\ depth' = [depth EXCEPT ![b] = d]
    BY <1>1 DEF AddBlock
  <1>4. d \in Nat /\ Height(b) \in 0 .. TopHeight /\ TopHeight \in Nat
    BY AboveTypes, InfoTypes, ConstantsAssumption
  <1>5. /\ \A x \in Block : depth[x] \in Nat /\ Height(x) \in Nat
        /\ depth'[b] = d /\ \A x \in Block : x # b => depth'[x] = depth[x]
        /\ blocksById \subseteq Block
    BY <1>3, InfoTypes DEF TypeOK
  <1>6. \A x : Refs(x)' = Refs(x) /\ Height(x)' = Height(x)
    BY DEF Refs, Parent, Uncles, Height
  <1>7. \A x \in Block : ~Pending(x) /\ (Pending(x)' <=> x = b)
    <2>1. <<1, b>>[2] = b /\ NoBlock \notin Block
      BY RefTypes
    <2> QED
      BY <1>1, <1>2, <2>1 DEF Pending
  \* The blocks above b, and the depth each of them gives it
  <1>8. ASSUME NEW c \in blocksById, b \in Refs(c)
        PROVE  Reach(c) - Height(b) \in DepthsFromAbove(b)
    <2>1. c \in Block /\ b # NoBlock
      BY <1>5, RefTypes
    <2> DEFINE i == Height(c) - Height(b)
    <2>2. i \in 1 .. UncleDepth /\ Height(b) + i = Height(c) /\ UncleDepth \in Nat
      BY <1>5, <1>8, <2>1, RefHeights, ConstantsAssumption
    <2>3. c \in blocksByHeight[Height(b) + i]
      BY <2>2 DEF StoreInv, IndexesAgree
    <2>4. depth[c] + i \in Nat /\ depth[c] + i <= TopHeight /\ depth[c] + i = Reach(c) - Height(b)
      BY <1>4, <1>5, <2>1, <2>2 DEF DepthInv, Reach
    <2>5. AsDepth(depth[c] + i) = Reach(c) - Height(b)
      BY <2>4, SmallDepth
    <2>6. CASE b = Parent(c)
      <3>1. i = 1
        BY <1>5, <2>1, <2>6 DEF HonestHeights
      <3> QED
        BY <2>3, <2>5, <2>6, <3>1 DEF DepthsFromAbove
    <2>7. CASE b \in Uncles(c)
      <3> HIDE DEF i
      <3> QED
        BY <2>2, <2>3, <2>5, <2>7 DEF DepthsFromAbove
    <2> QED
      BY <1>8, <2>6, <2>7 DEF Refs
  <1>9. ASSUME NEW k \in DepthsFromAbove(b)
        PROVE  \E c \in blocksById : b \in Refs(c) /\ k = Reach(c) - Height(b)
    <2>1. \E j \in 1 .. UncleDepth : \E c \in blocksByHeight[Height(b) + j] :
            b \in Refs(c) /\ k = AsDepth(depth[c] + j)
      <3>1. 1 \in 1 .. UncleDepth
        BY ConstantsAssumption
      <3>2. \/ \E c \in blocksByHeight[Height(b) + 1] : Parent(c) = b /\ k = AsDepth(depth[c] + 1)
            \/ \E j \in 1 .. UncleDepth : \E c \in blocksByHeight[Height(b) + j] :
                 b \in Uncles(c) /\ k = AsDepth(depth[c] + j)
        BY DEF DepthsFromAbove
      <3> QED
        BY <3>1, <3>2 DEF Refs
    <2>2. PICK j \in 1 .. UncleDepth : \E c \in blocksByHeight[Height(b) + j] :
            b \in Refs(c) /\ k = AsDepth(depth[c] + j)
      BY <2>1
    <2>3. PICK c \in blocksByHeight[Height(b) + j] : b \in Refs(c) /\ k = AsDepth(depth[c] + j)
      BY <2>2
    <2>4. Height(b) + j \in 0 .. TopHeight
      BY HeightsAbove
    <2>5. c \in blocksById /\ c \in Block /\ Height(c) = Height(b) + j
      BY <1>5, <2>3, <2>4 DEF StoreInv, IndexesAgree
    <2>6. depth[c] + j \in Nat /\ depth[c] + j <= TopHeight /\ depth[c] + j = Reach(c) - Height(b)
      BY <1>4, <1>5, <2>5 DEF DepthInv, Reach
    <2>7. k = Reach(c) - Height(b)
      BY <2>3, <2>6, SmallDepth
    <2> QED
      BY <2>3, <2>5, <2>7
  <1>10. Reach(b)' = d + Height(b) /\ \A x \in Block : x # b => Reach(x)' = Reach(x)
    BY <1>5, <1>6 DEF Reach
  <1>11. \A x \in Block : Reach(x) \in Nat /\ Reach(x) <= TopHeight
    BY <1>5 DEF Reach, DepthInv
  <1>12. ASSUME d # 0
         PROVE  \E c \in blocksById : b \in Refs(c) /\ Reach(b)' = Reach(c)
    <2>1. PICK c \in blocksById : b \in Refs(c) /\ d = Reach(c) - Height(b)
      BY <1>3, <1>9, <1>12
    <2> QED
      BY <1>4, <1>5, <1>10, <1>11, <2>1
  <1>13. \A x \in Block : Reach(x)' <= TopHeight
    <2>1. Reach(b)' <= TopHeight
      BY <1>4, <1>5, <1>10, <1>11, <1>12
    <2> QED
      BY <1>10, <1>11, <2>1
  <1>14. HandedDown'
    <2> SUFFICES ASSUME NEW c \in blocksById', ~Pending(c)', NEW x \in Refs(c) \cap blocksById'
                 PROVE  Reach(c)' <= Reach(x)'
      BY <1>6 DEF HandedDown
    <2>1. c \in blocksById /\ c \in Block /\ c # b /\ x \in Block
      BY <1>2, <1>5, <1>7
    <2>2. CASE x = b
      <3>1. Reach(c) - Height(b) <= d
        BY <1>3, <1>8, <2>1, <2>2
      <3> QED
        BY <1>4, <1>5, <1>10, <1>11, <2>1, <2>2, <3>1
    <2>3. CASE x # b
      <3>1. x \in blocksById /\ Reach(c) <= Reach(x)
        BY <1>2, <1>7, <2>1, <2>3 DEF DepthInv, HandedDown
      <3> QED
        BY <1>10, <2>1, <2>3, <3>1
    <2> QED
      BY <2>2, <2>3
  <1>15. ASSUME ~Aging, NEW x \in blocksById', depth'[x] > 0
         PROVE  \E c \in blocksById' : ComesFrom(x, c)'
    <2>1. CASE x = b
      <3>1. PICK c \in blocksById : b \in Refs(c) /\ Reach(b)' = Reach(c)
        BY <1>4, <1>5, <1>12, <1>15, <2>1
      <3>2. c \in blocksById' /\ Reach(c)' = Reach(c) /\ b \in Refs(c)'
        BY <1>1, <1>2, <1>5, <1>6, <1>10, <3>1
      <3> QED
        BY <2>1, <3>1, <3>2 DEF ComesFrom
    <2>2. CASE x # b
      <3>1. x \in blocksById /\ x \in Block /\ depth[x] > 0
        BY <1>2, <1>5, <1>15, <2>2
      <3>2. PICK c \in blocksById : ComesFrom(x, c)
        BY <1>15, <3>1 DEF DepthInv
      <3>3. c \in Block /\ c # b /\ ~Pending(c) /\ c \in blocksById'
        BY <1>1, <1>2, <1>5, <1>7
      <3>4. Reach(x)' = Reach(c)' /\ x \in Refs(c)'
        BY <1>6, <1>10, <2>2, <3>1, <3>2, <3>3 DEF ComesFrom
      <3> QED
        BY <3>3, <3>4 DEF ComesFrom
    <2> QED
      BY <2>1, <2>2
  <1>16. DepthControl'
    BY <1>1, <1>2 DEF DepthControl
  <1> QED
    BY <1>13, <1>14, <1>15, <1>16 DEF DepthInv

\* update_depths: one block hands its depth down
LEMMA PropagateDepths ==
    ASSUME HonestHeights, DepthsFit, TypeOK, ControlOK, NoDanglingPointer, DepthControl, DepthInv,
           Propagate
    PROVE  DepthControl' /\ DepthInv'
  <1> DEFINE R == Raised(cur)
  <1>0. PICK k : k = cur
    OBVIOUS
  <1>1. /\ pc = "propagate" /\ pc' = "depths" /\ cur' = NoBlock /\ UNCHANGED <<blocksById, aged>>
        /\ depth' = [x \in Block |-> IF x \in R THEN RaisedDepth(cur, x) ELSE depth[x]]
    BY DEF Propagate, storeVars
  <1>2. PICK top \in {0} \cup {e[1] : e \in toUpdate} :
          toUpdate' = toUpdate \cup
            {<<IF x = Parent(cur) THEN top + 1 ELSE top + 2, x>> : x \in R}
    BY DEF Propagate
  <1>3. /\ k \in Block /\ k \in blocksById /\ k = cur
        /\ blocksById \subseteq Block /\ NoBlock \notin Block
    BY <1>0, <1>1, RefTypes DEF ControlOK, TypeOK, NoDanglingPointer, Stored
  <1>4. \A x : Refs(x)' = Refs(x) /\ Height(x)' = Height(x)
    BY DEF Refs, Parent, Uncles, Height
  <1>5. \A x \in Block : depth[x] \in Nat /\ Height(x) \in Nat /\ Reach(x) \in Nat
    BY InfoTypes DEF TypeOK, Reach
  <1>6. ASSUME NEW x \in Refs(k) \cap blocksById
        PROVE  /\ x # k /\ x \in Block
               /\ x \in R => Reach(x) < Reach(k) /\ Reach(x)' = Reach(k)
               /\ x \notin R => Reach(x) >= Reach(k)
    <2>1. x \in Refs(k) \ {NoBlock} /\ Reach(k) <= TopHeight /\ x \in Block
      BY <1>3, <1>6 DEF DepthInv
    <2>2. /\ Height(x) < Height(k) /\ RaisedDepth(k, x) \in Nat
          /\ RaisedDepth(k, x) + Height(x) = Reach(k)
      BY <1>3, <2>1, RaisedReach
    <2>3. x \in R <=> depth[x] < RaisedDepth(k, x)
      BY <1>3, <1>6 DEF Raised, Refs
    <2>4. x # k
      BY <1>3, <1>5, <2>2
    <2>5. x \in R => depth'[x] = RaisedDepth(k, x)
      BY <1>1, <1>3, <2>1
    <2> HIDE DEF R
    <2>6. x \in R => Reach(x) < Reach(k) /\ Reach(x)' = Reach(k)
      BY <1>4, <1>5, <2>1, <2>2, <2>3, <2>5 DEF Reach
    <2>7. x \notin R => Reach(x) >= Reach(k)
      BY <1>5, <2>1, <2>2, <2>3 DEF Reach
    <2> QED
      BY <2>1, <2>4, <2>6, <2>7
  <1>7. R \subseteq Refs(k) \cap blocksById
    BY <1>3 DEF Raised, Refs
  <1>8. \A x \in Block : x \notin R => Reach(x)' = Reach(x) /\ depth'[x] = depth[x]
    BY <1>1, <1>4 DEF Reach
  <1>9. \A c \in Block : Pending(c)' <=> c \in R \/ \E e \in toUpdate : e[2] = c
    <2> DEFINE lvl(x) == IF x = Parent(k) THEN top + 1 ELSE top + 2
    <2>1. \A x \in R : <<lvl(x), x>> \in toUpdate' /\ <<lvl(x), x>>[2] = x
      BY <1>2, <1>3
    <2>2. \A e \in toUpdate' : e \in toUpdate \/ e[2] \in R
      BY <1>2, <1>3
    <2>3. toUpdate \subseteq toUpdate'
      BY <1>2, <1>3
    <2> HIDE DEF R, lvl
    <2> QED
      BY <1>1, <1>3, <2>1, <2>2, <2>3 DEF Pending
  <1> HIDE DEF R
  <1>10. \A x \in Block : Reach(x)' <= TopHeight /\ Reach(x)' >= Reach(x) /\ Reach(x)' \in Nat
    BY <1>3, <1>5, <1>6, <1>7, <1>8 DEF DepthInv
  <1>11. k \notin R /\ Reach(k)' = Reach(k)
    BY <1>3, <1>6, <1>7, <1>8
  <1>12. HandedDown'
    <2> SUFFICES ASSUME NEW c \in blocksById, ~Pending(c)', NEW x \in Refs(c) \cap blocksById
                 PROVE  Reach(c)' <= Reach(x)'
      BY <1>1, <1>4 DEF HandedDown
    <2>1. c \in Block /\ x \in Block /\ c \notin R /\ Reach(c)' = Reach(c)
      BY <1>3, <1>8, <1>9
    <2>2. CASE c = k
      BY <1>5, <1>6, <1>10, <2>1, <2>2
    <2>3. CASE c # k
      <3>1. Reach(c) <= Reach(x)
        BY <1>3, <1>9, <2>1, <2>3 DEF Pending, DepthInv, HandedDown
      <3> QED
        BY <1>5, <1>10, <2>1, <3>1
    <2> QED
      BY <2>2, <2>3
  <1>13. ASSUME ~Aging, NEW x \in blocksById', depth'[x] > 0
         PROVE  \E c \in blocksById' : ComesFrom(x, c)'
    <2>0. x \in blocksById /\ x \in Block
      BY <1>1, <1>3
    <2>1. CASE x \in R
      <3>1. k \in blocksById' /\ x \in Refs(k)' /\ Reach(x)' = Reach(k)'
        BY <1>1, <1>3, <1>4, <1>6, <1>7, <1>11, <2>1
      <3> QED
        BY <3>1 DEF ComesFrom
    <2>2. CASE x \notin R
      <3>1. depth[x] > 0 /\ Reach(x)' = Reach(x)
        BY <1>8, <1>13, <2>0, <2>2
      <3>2. PICK c \in blocksById : ComesFrom(x, c)
        BY <1>13, <2>0, <3>1 DEF DepthInv
      <3>3. c \in Block /\ c \in blocksById' /\ x \in Refs(c) /\ x \in Refs(c)'
        BY <1>1, <1>3, <1>4, <3>2 DEF ComesFrom
      <3>4. Reach(x) <= Reach(c)
        BY <1>5, <2>0, <3>2, <3>3 DEF ComesFrom
      <3>5. CASE c = k
        <4>1. Reach(x) = Reach(k)
          BY <1>3, <1>5, <1>6, <2>0, <2>2, <3>3, <3>4, <3>5
        <4> QED
          BY <1>11, <3>1, <3>3, <3>5, <4>1 DEF ComesFrom
      <3>6. CASE c # k /\ c \in R
        <4>1. Pending(c)' /\ Reach(x)' <= Reach(c)'
          BY <1>5, <1>9, <1>10, <2>0, <3>1, <3>3, <3>4, <3>6
        <4> QED
          BY <3>3, <4>1 DEF ComesFrom
      <3>7. CASE c # k /\ c \notin R
        <4>1. Reach(c)' = Reach(c) /\ (Pending(c) => Pending(c)')
          BY <1>3, <1>8, <1>9, <3>3, <3>7 DEF Pending
        <4> QED
          BY <3>1, <3>2, <3>3, <4>1 DEF ComesFrom
      <3> QED
        BY <3>5, <3>6, <3>7
    <2> QED
      BY <2>1, <2>2
  <1>14. DepthControl'
    BY <1>1 DEF DepthControl
  <1> QED
    BY <1>10, <1>12, <1>13, <1>14 DEF DepthInv

LEMMA DepthStep ==
    ASSUME HonestHeights, DepthsFit, TypeOK, ControlOK, StoreInv, NoDanglingPointer,
           NoDanglingPointer', DepthControl, DepthInv, [Next]_vars
    PROVE  DepthControl' /\ DepthInv'
  <1>1. ASSUME UNCHANGED <<blocksById, depth>>, \A c : Pending(c)' <=> Pending(c)
        PROVE  DepthInv'
    BY <1>1 DEF DepthInv, HandedDown, ComesFrom, Reach, Refs, Parent, Uncles, Height
  <1>2. ASSUME UNCHANGED <<blocksById, depth, cur, toUpdate, pc, returnTo>>, ~Aging => UNCHANGED aged
        PROVE  DepthControl' /\ DepthInv'
    <2>1. \A c : Pending(c)' <=> Pending(c)
      BY <1>2 DEF Pending
    <2> QED
      BY <1>1, <1>2, <2>1 DEF DepthControl
  <1>3. ASSUME NEW b \in Block, Receive(b) \/ SubmitOwnBlock(b) \/ CheckBlock(b)
                                \/ RejectBlock(b) \/ RetryLater(b)
        PROVE  DepthControl' /\ DepthInv'
    BY <1>2, <1>3 DEF Receive, SubmitOwnBlock, CheckBlock, RejectBlock, RetryLater,
       checkUnchanged, blockVars, callVars
  <1>4. ASSUME NEW b \in Block, AddBlock(b) PROVE DepthControl' /\ DepthInv'
    BY <1>4, AddDepths
  <1>5. ASSUME NEW e \in toUpdate, PopToUpdate(e) PROVE DepthControl' /\ DepthInv'
    <2>1. /\ pc = "depths" /\ cur' = e[2] /\ toUpdate' = toUpdate \ {e}
          /\ UNCHANGED <<blocksById, depth, aged>>
          /\ \/ pc' = "verify" /\ returnTo' = "propagate"
             \/ pc' = "propagate"
      BY <1>5 DEF PopToUpdate, startVerifyUnchanged, storeVars, blockVars
    <2>2. cur = NoBlock
      BY <2>1 DEF DepthControl
    <2>3. \A c \in Block : Pending(c)' <=> Pending(c)
      BY <2>1, <2>2, RefTypes DEF Pending
    <2>4. DepthInv'
      BY <2>1, <2>3
         DEF DepthInv, HandedDown, ComesFrom, Reach, Refs, Parent, Uncles, Height, TypeOK
    <2>5. DepthControl'
      BY <2>1 DEF DepthControl
    <2> QED
      BY <2>4, <2>5
  <1>6. ASSUME Propagate PROVE DepthControl' /\ DepthInv'
    BY <1>6, PropagateDepths
  <1>7. ASSUME NEW e, VerifyFails(e) \/ VerifyPasses(e) PROVE DepthControl' /\ DepthInv'
    BY <1>2, <1>7 DEF VerifyFails, VerifyPasses, verifyUnchanged, storeVars
  <1>8. ASSUME FinishVerifyLoop PROVE DepthControl' /\ DepthInv'
    <2>1. /\ pc = "verify" /\ pc' = returnTo /\ UNCHANGED <<cur, toUpdate, returnTo>>
          /\ IF highest = NoBlock THEN UNCHANGED updateTipVars ELSE UpdateChainTip(highest)
      BY <1>8 DEF FinishVerifyLoop
    <2>2. DepthInv' /\ aged' \subseteq aged
      <3>1. CASE highest = NoBlock
        <4>1. \A c : Pending(c)' <=> Pending(c)
          BY <2>1 DEF Pending
        <4> QED
          BY <1>1, <2>1, <3>1, <4>1 DEF updateTipVars, storeVars, blockVars
      <3>2. CASE highest # NoBlock
        BY <2>1, <3>2, PruneDepths DEF TypeOK
      <3> QED
        BY <3>1, <3>2
    <2>3. returnTo \in {"unlocked", "propagate"}
      BY DEF TypeOK
    <2>4. DepthControl'
      BY <2>1, <2>2, <2>3 DEF DepthControl
    <2> QED
      BY <2>2, <2>4
  <1>9. ASSUME FinishUpdateDepths PROVE DepthControl' /\ DepthInv'
    <2>1. /\ pc = "depths" /\ toUpdate = {} /\ UNCHANGED <<cur, toUpdate>> /\ newBlock \in Block
          /\ cur = NoBlock /\ pc' \in {"unlocked", "verify"}
          /\ UNCHANGED updateTipVars \/ UpdateChainTip(newBlock)
      BY <1>9 DEF FinishUpdateDepths, ControlOK, TypeOK, DepthControl
    <2>2. DepthInv' /\ aged' \subseteq aged
      <3>1. CASE UNCHANGED updateTipVars
        <4>1. \A c : Pending(c)' <=> Pending(c)
          BY <2>1 DEF Pending
        <4> QED
          BY <1>1, <3>1, <4>1 DEF updateTipVars, storeVars, blockVars
      <3>2. CASE UpdateChainTip(newBlock)
        BY <2>1, <3>2, PruneDepths
      <3> QED
        BY <2>1, <3>1, <3>2
    <2>3. DepthControl'
      BY <2>1, <2>2 DEF DepthControl
    <2> QED
      BY <2>2, <2>3
  <1>10. ASSUME UpdateBlockTemplate \/ MainchainAdvances \/ TimePasses
         PROVE  DepthControl' /\ DepthInv'
    BY <1>2, <1>10 DEF UpdateBlockTemplate, MainchainAdvances, TimePasses, storeVars,
       blockVars, callVars
  <1>11. CASE UNCHANGED vars
    BY <1>2, <1>11 DEF vars, storeVars, blockVars, callVars
  <1> QED
    BY <1>3, <1>4, <1>5, <1>6, <1>7, <1>8, <1>9, <1>10, <1>11
       DEF Next, Worker, LockHolder

\* For every tree with honest heights, whatever the order in which its blocks come and
\* whatever is pruned meanwhile (as long as no pointer dangles): once add_block has
\* returned, every depth is the distance to the highest block above, which verify and
\* prune_old_blocks rely on.
THEOREM DepthsAreDistances ==
    HonestHeights /\ DepthsFit => (Spec /\ []NoDanglingPointer => []DepthIsDistance)
  <1> SUFFICES ASSUME HonestHeights, DepthsFit
               PROVE  Spec /\ []NoDanglingPointer => []DepthIsDistance
    OBVIOUS
  <1>1. Init => DepthControl /\ DepthInv
    <2> SUFFICES ASSUME Init PROVE DepthControl /\ DepthInv
      OBVIOUS
    <2>1. \A x \in Block : Reach(x) <= TopHeight
      <3> SUFFICES ASSUME NEW x \in Block PROVE Reach(x) <= TopHeight
        OBVIOUS
      <3>1. depth[x] = 0 /\ Height(x) \in 0 .. TopHeight /\ TopHeight \in Nat
        BY InfoTypes, ConstantsAssumption DEF Init
      <3> QED
        BY <3>1 DEF Reach
    <2> QED
      BY <2>1 DEF Init, DepthControl, DepthInv, HandedDown
  <1>2. /\ TypeOK /\ ControlOK /\ StoreInv /\ NoDanglingPointer /\ NoDanglingPointer'
        /\ DepthControl /\ DepthInv /\ [Next]_vars
        => (DepthControl /\ DepthInv)'
    BY DepthStep
  <1>3. TypeOK /\ DepthControl /\ DepthInv => DepthIsDistance
    <2> SUFFICES ASSUME TypeOK, DepthControl, DepthInv, pc = "unlocked" PROVE DepthIsDistance
      BY DEF DepthIsDistance
    <2>1. \A c \in Block : ~Pending(c)
      BY RefTypes DEF DepthControl, Pending
    <2>2. ASSUME NEW c \in blocksById, NEW x \in Refs(c) \cap blocksById
          PROVE  /\ depth[x] \in Nat /\ RaisedDepth(c, x) \in Nat /\ Height(x) \in Nat
                 /\ RaisedDepth(c, x) + Height(x) = Reach(c)
      <3>1. c \in Block /\ x \in Refs(c) \ {NoBlock} /\ depth[x] \in Nat /\ Reach(c) <= TopHeight
        BY RefTypes DEF TypeOK, DepthInv
      <3> QED
        BY <3>1, RaisedReach
    <2>3. ASSUME NEW c \in blocksById, NEW x \in Refs(c) \cap blocksById
          PROVE  depth[x] >= RaisedDepth(c, x)
      <3>1. Reach(c) <= Reach(x)
        BY <2>1, <2>3 DEF DepthInv, HandedDown, TypeOK
      <3> QED
        BY <2>2, <2>3, <3>1 DEF Reach
    <2>4. ASSUME ~Aging, NEW x \in blocksById, depth[x] > 0
          PROVE  \E c \in blocksById : x \in Refs(c) /\ depth[x] = RaisedDepth(c, x)
      <3>1. PICK c \in blocksById : ComesFrom(x, c)
        BY <2>4 DEF DepthInv
      <3>2. x \in Refs(c) /\ Reach(x) = Reach(c)
        BY <2>1, <3>1 DEF ComesFrom, TypeOK
      <3>3. depth[x] = RaisedDepth(c, x)
        BY <2>2, <3>2 DEF Reach
      <3> QED
        BY <3>2, <3>3
    <2> QED
      BY <2>3, <2>4 DEF DepthIsDistance, Refs
  <1> QED
    BY <1>1, <1>2, <1>3, StoreInvariant, PTL DEF Spec

-----------------------------------------------------------------------------
(* Own blocks.  What a job was made from stays true as long as nothing is  *)
(* deleted: S stands for m_blocksById in one state, so that a lemma holds  *)
(* before and after a step.                                                *)

\* One block down, as in get_parent
Down(S, a) == IF a # NoBlock /\ Parent(a) \in S THEN Parent(a) ELSE NoBlock

\* g goes down from b, as Ancestor builds it
Goes(S, b, i, g) == g = [j \in 0 .. i |-> IF j = 0 THEN b ELSE Down(S, g[j - 1])]

Anc(S, b, i) == (CHOOSE g : Goes(S, b, i, g))[i]

LEMMA AncestorIsAnc ==
    ASSUME NEW b, NEW i
    PROVE  Ancestor(b, i) = Anc(blocksById, b, i) /\ Ancestor(b, i)' = Anc(blocksById', b, i)
  BY DEF Ancestor, Anc, Goes, Down, GetParent, Parent

\* There is a way down of every length
LEMMA GoesExists ==
    ASSUME NEW S, NEW b, NEW i \in Nat
    PROVE  \E g : Goes(S, b, i, g)
  <1> DEFINE Has(n) == \E g : Goes(S, b, n, g)
             T == {n \in Nat : ~Has(n)}
  <1>1. Has(0)
    <2> DEFINE g == [j \in 0 .. 0 |-> b]
    <2>1. Goes(S, b, 0, g)
      BY DEF Goes
    <2> HIDE DEF g
    <2> QED
      BY <2>1
  <1>2. ASSUME NEW n \in Nat, Has(n) PROVE Has(n + 1)
    <2>1. PICK g : Goes(S, b, n, g)
      BY <1>2
    <2> DEFINE h == [j \in 0 .. n + 1 |-> IF j = 0 THEN b ELSE Down(S, g[j - 1])]
    <2>2. \A j \in 0 .. n : g[j] = h[j]
      BY <2>1 DEF Goes
    <2>3. ASSUME NEW j \in 0 .. n + 1, j # 0 PROVE h[j] = Down(S, h[j - 1])
      <3>1. j - 1 \in 0 .. n
        BY <2>3
      <3>2. g[j - 1] = h[j - 1] /\ h[j] = Down(S, g[j - 1])
        BY <2>2, <2>3, <3>1
      <3> QED
        BY <3>2, Zenon
    <2>4. h = [j \in 0 .. n + 1 |-> IF j = 0 THEN b ELSE Down(S, h[j - 1])]
      <3>1. ASSUME NEW j \in 0 .. n + 1 PROVE h[j] = IF j = 0 THEN b ELSE Down(S, h[j - 1])
        <4>1. j = 0 => h[j] = b
          OBVIOUS
        <4> QED
          BY <2>3, <4>1, Zenon
      <3> QED
        BY <3>1, Zenon
    <2> HIDE DEF h
    <2> QED
      BY <2>4 DEF Goes
  <1>3. T = {}
    <2> SUFFICES ASSUME T # {} PROVE FALSE
      OBVIOUS
    <2> HIDE DEF Has
    <2>1. PICK n \in T : \A m \in T : n <= m
      BY LeastNumber
    <2>2. n \in Nat /\ n # 0 /\ ~Has(n)
      BY <1>1
    <2>3. n - 1 \in Nat /\ n - 1 \notin T
      BY <2>1, <2>2
    <2>4. Has(n - 1)
      BY <2>3
    <2> QED
      BY <1>2, <2>2, <2>3, <2>4
  <1> QED
    BY <1>3

LEMMA GoesAgree ==
    ASSUME NEW S, NEW b, NEW i \in Nat, NEW l \in Nat, NEW g, NEW h,
           Goes(S, b, i, g), Goes(S, b, l, h), i <= l
    PROVE  g[i] = h[i]
  <1> DEFINE T == {j \in 0 .. i : g[j] # h[j]}
  <1>1. SUFFICES ASSUME T # {} PROVE FALSE
    OBVIOUS
  <1>0. T \subseteq Nat
    OBVIOUS
  <1>2. PICK j \in T : \A m \in T : j <= m
    BY <1>0, <1>1, LeastNumber
  <1>3. /\ g[j] = IF j = 0 THEN b ELSE Down(S, g[j - 1])
        /\ h[j] = IF j = 0 THEN b ELSE Down(S, h[j - 1])
    BY DEF Goes
  <1>4. j # 0
    BY <1>3
  <1>5. j - 1 \in 0 .. i /\ j - 1 \notin T
    BY <1>2, <1>4
  <1>6. g[j - 1] = h[j - 1]
    BY <1>5
  <1> QED
    BY <1>3, <1>4, <1>6, Zenon

LEMMA AncEquation ==
    ASSUME NEW S, NEW b, NEW i \in Nat
    PROVE  Anc(S, b, 0) = b /\ Anc(S, b, i + 1) = Down(S, Anc(S, b, i))
  <1>1. PICK z : Goes(S, b, 0, z) /\ Anc(S, b, 0) = z[0]
    BY GoesExists, Zenon DEF Anc
  <1>2. PICK g : Goes(S, b, i, g) /\ Anc(S, b, i) = g[i]
    BY GoesExists, Zenon DEF Anc
  <1>3. i + 1 \in Nat
    OBVIOUS
  <1>4. PICK h : Goes(S, b, i + 1, h) /\ Anc(S, b, i + 1) = h[i + 1]
    BY <1>3, GoesExists, Zenon DEF Anc
  <1>5. g[i] = h[i]
    BY <1>2, <1>3, <1>4, GoesAgree
  <1>6. z[0] = b
    BY <1>1 DEF Goes
  <1>7. h[i + 1] = Down(S, h[i])
    BY <1>4 DEF Goes
  <1> QED
    BY <1>1, <1>2, <1>4, <1>5, <1>6, <1>7, Zenon

\* The same way from the parent on
LEMMA AncShift ==
    ASSUME NEW S, NEW b, NEW i \in Nat
    PROVE  Anc(S, b, i + 1) = Anc(S, Down(S, b), i)
  <1> DEFINE T == {j \in Nat : Anc(S, b, j + 1) # Anc(S, Down(S, b), j)}
  <1>1. SUFFICES ASSUME T # {} PROVE FALSE
    OBVIOUS
  <1>2. PICK j \in T : \A m \in T : j <= m
    BY <1>1, LeastNumber
  <1>3. j # 0
    <2>1. Anc(S, b, 0 + 1) = Down(S, Anc(S, b, 0)) /\ Anc(S, b, 0) = b
      BY AncEquation
    <2>2. Anc(S, Down(S, b), 0) = Down(S, b)
      BY AncEquation
    <2>3. 0 \notin T
      BY <2>1, <2>2
    <2> QED
      BY <2>3
  <1>4. j - 1 \in Nat /\ j - 1 \notin T /\ (j - 1) + 1 = j
    BY <1>2, <1>3
  <1>5. Anc(S, b, j) = Anc(S, Down(S, b), j - 1)
    BY <1>4
  <1>6. Anc(S, b, j + 1) = Down(S, Anc(S, b, j))
    BY AncEquation
  <1>7. Anc(S, Down(S, b), (j - 1) + 1) = Down(S, Anc(S, Down(S, b), j - 1))
    BY <1>4, AncEquation
  <1>8. Anc(S, b, j + 1) = Anc(S, Down(S, b), j)
    BY <1>4, <1>5, <1>6, <1>7
  <1> QED
    BY <1>8

\* More blocks only make the walk longer
LEMMA AncGrows ==
    ASSUME NEW S, NEW R, S \subseteq R, NEW b, NEW i \in Nat, Anc(S, b, i) # NoBlock
    PROVE  Anc(R, b, i) = Anc(S, b, i)
  <1> DEFINE T == {j \in Nat : Anc(S, b, j) # NoBlock /\ Anc(R, b, j) # Anc(S, b, j)}
  <1>1. SUFFICES ASSUME T # {} PROVE FALSE
    OBVIOUS
  <1>2. PICK j \in T : \A m \in T : j <= m
    BY <1>1, LeastNumber
  <1>3. Anc(S, b, 0) = b /\ Anc(R, b, 0) = b
    BY AncEquation
  <1>4. j # 0
    BY <1>3
  <1>5. j - 1 \in Nat /\ j - 1 \notin T /\ (j - 1) + 1 = j
    BY <1>2, <1>4
  <1>6. /\ Anc(S, b, j) = Down(S, Anc(S, b, j - 1))
        /\ Anc(R, b, j) = Down(R, Anc(R, b, j - 1))
    BY <1>5, AncEquation
  <1>7. Anc(S, b, j - 1) # NoBlock /\ Parent(Anc(S, b, j - 1)) \in S
    BY <1>2, <1>6 DEF Down
  <1>8. Anc(R, b, j - 1) = Anc(S, b, j - 1)
    BY <1>5, <1>7
  <1> QED
    BY <1>2, <1>6, <1>7, <1>8 DEF Down

LEMMA AncType ==
    ASSUME NEW S, S \subseteq Block, NEW b \in Block \cup {NoBlock}, NEW i \in Nat
    PROVE  Anc(S, b, i) \in Block \cup {NoBlock}
  <1>1. CASE i = 0
    BY <1>1, AncEquation
  <1>2. CASE i # 0
    <2>1. i - 1 \in Nat /\ (i - 1) + 1 = i
      BY <1>2
    <2>2. Anc(S, b, i) = Down(S, Anc(S, b, i - 1))
      BY <2>1, AncEquation
    <2> QED
      BY <2>2 DEF Down
  <1> QED
    BY <1>1, <1>2

\* Once the walk has run out of blocks it stays there
LEMMA AncNone ==
    ASSUME NEW S, NEW b, NEW i \in Nat, Anc(S, b, i) = NoBlock, NEW n \in Nat, i <= n
    PROVE  Anc(S, b, n) = NoBlock
  <1> DEFINE T == {j \in Nat : i <= j /\ Anc(S, b, j) # NoBlock}
  <1>1. SUFFICES ASSUME T # {} PROVE FALSE
    OBVIOUS
  <1>2. PICK j \in T : \A m \in T : j <= m
    BY <1>1, LeastNumber
  <1>3. j # i
    OBVIOUS
  <1>4. j - 1 \in Nat /\ j - 1 \notin T /\ i <= j - 1 /\ (j - 1) + 1 = j
    BY <1>2, <1>3
  <1>5. Anc(S, b, j) = Down(S, Anc(S, b, j - 1)) /\ Anc(S, b, j - 1) = NoBlock
    BY <1>4, AncEquation
  <1> QED
    BY <1>2, <1>5 DEF Down

\* Every step down is one of height
LEMMA AncHeights ==
    ASSUME HonestHeights, NEW S, S \subseteq Block, NEW b \in Block, NEW i \in Nat,
           Anc(S, b, i) # NoBlock
    PROVE  Anc(S, b, i) \in Block /\ Height(Anc(S, b, i)) + i = Height(b)
  <1> DEFINE T == {j \in Nat : Anc(S, b, j) # NoBlock /\ Height(Anc(S, b, j)) + j # Height(b)}
  <1>1. Anc(S, b, i) \in Block
    BY AncType
  <1>2. SUFFICES ASSUME T # {} PROVE FALSE
    BY <1>1
  <1>3. PICK j \in T : \A m \in T : j <= m
    BY <1>2, LeastNumber
  <1>4. j # 0
    <2>1. Anc(S, b, 0) = b /\ Height(b) \in Nat
      BY AncEquation, InfoTypes
    <2> QED
      BY <1>3, <2>1
  <1>5. j - 1 \in Nat /\ j - 1 \notin T /\ (j - 1) + 1 = j
    BY <1>3, <1>4
  <1>6. Anc(S, b, j) = Down(S, Anc(S, b, j - 1))
    BY <1>5, AncEquation
  <1>7. /\ Anc(S, b, j - 1) # NoBlock /\ Parent(Anc(S, b, j - 1)) = Anc(S, b, j)
        /\ Anc(S, b, j) # NoBlock
    BY <1>3, <1>6 DEF Down
  <1>8. Anc(S, b, j - 1) \in Block /\ Anc(S, b, j) \in Block
    BY <1>5, <1>7, AncType
  <1>9. Height(Anc(S, b, j - 1)) = Height(Anc(S, b, j)) + 1
    BY <1>7, <1>8 DEF HonestHeights
  <1>10. Height(Anc(S, b, j - 1)) + (j - 1) = Height(b)
    BY <1>5, <1>7
  <1>11. Height(Anc(S, b, j)) \in Nat /\ Height(b) \in Nat
    BY <1>8, InfoTypes
  <1>12. Height(Anc(S, b, j)) + j # Height(b) /\ j \in Nat
    BY <1>3
  <1> QED
    BY <1>9, <1>10, <1>11, <1>12

\* Nothing is below a block of height 0
LEMMA AncEnds ==
    ASSUME HonestHeights, NEW S, S \subseteq Block, NEW b \in Block, NEW i \in Nat,
           Anc(S, b, i) # NoBlock, Height(Anc(S, b, i)) = 0, NEW n \in Nat, i < n
    PROVE  Anc(S, b, n) = NoBlock
  <1>1. SUFFICES ASSUME Anc(S, b, n) # NoBlock PROVE FALSE
    OBVIOUS
  <1>2. Height(Anc(S, b, i)) + i = Height(b)
    BY AncHeights
  <1>3. Anc(S, b, n) \in Block /\ Height(Anc(S, b, n)) + n = Height(b)
    BY <1>1, AncHeights
  <1>4. Height(Anc(S, b, n)) \in Nat
    BY <1>3, InfoTypes
  <1> QED
    BY <1>2, <1>3, <1>4

\* WindowComplete, for the blocks in S
Whole(S, b) ==
    \A n \in 0 .. Window - 1 :
        IF Anc(S, b, n) = NoBlock
        THEN \E j \in 0 .. n - 1 : Anc(S, b, j) # NoBlock /\ Height(Anc(S, b, j)) = 0
        ELSE Uncles(Anc(S, b, n)) \subseteq S

LEMMA WindowIsWhole ==
    ASSUME NEW b
    PROVE  /\ WindowComplete(b) <=> Whole(blocksById, b)
           /\ WindowComplete(b)' <=> Whole(blocksById', b)
  <1>1. WindowComplete(b) <=> Whole(blocksById, b)
    BY AncestorIsAnc, Zenon DEF WindowComplete, Whole
  <1>2. WindowComplete(b)' <=> Whole(blocksById', b)
    BY AncestorIsAnc, Zenon DEF WindowComplete, Whole, Height, Uncles
  <1> QED
    BY <1>1, <1>2

\* Blocks that come later change nothing in a complete window
LEMMA WholeSame ==
    ASSUME HonestHeights, NEW S, NEW R, S \subseteq R, R \subseteq Block, NEW b \in Block,
           Whole(S, b), NEW n \in 0 .. Window - 1
    PROVE  Anc(R, b, n) = Anc(S, b, n)
  <1>0. n \in Nat /\ S \subseteq Block
    BY ConstantsAssumption
  <1>1. CASE Anc(S, b, n) # NoBlock
    BY <1>0, <1>1, AncGrows
  <1>2. CASE Anc(S, b, n) = NoBlock
    <2>1. PICK j \in 0 .. n - 1 : Anc(S, b, j) # NoBlock /\ Height(Anc(S, b, j)) = 0
      BY <1>2 DEF Whole
    <2>2. j \in Nat /\ j < n
      BY <1>0
    <2>3. Anc(R, b, j) = Anc(S, b, j)
      BY <2>1, <2>2, AncGrows
    <2>4. Anc(R, b, n) = NoBlock
      BY <1>0, <2>1, <2>2, <2>3, AncEnds
    <2> QED
      BY <1>2, <2>4
  <1> QED
    BY <1>1, <1>2

LEMMA WholeGrows ==
    ASSUME HonestHeights, NEW S, NEW R, S \subseteq R, R \subseteq Block, NEW b \in Block,
           Whole(S, b)
    PROVE  Whole(R, b)
  <1>1. ASSUME NEW n \in 0 .. Window - 1
        PROVE  IF Anc(R, b, n) = NoBlock
               THEN \E j \in 0 .. n - 1 : Anc(R, b, j) # NoBlock /\ Height(Anc(R, b, j)) = 0
               ELSE Uncles(Anc(R, b, n)) \subseteq R
    <2>0. n \in Nat
      BY ConstantsAssumption
    <2>1. Anc(R, b, n) = Anc(S, b, n)
      BY WholeSame
    <2>2. CASE Anc(S, b, n) # NoBlock
      BY <2>1, <2>2 DEF Whole
    <2>3. CASE Anc(S, b, n) = NoBlock
      <3>1. PICK j \in 0 .. n - 1 : Anc(S, b, j) # NoBlock /\ Height(Anc(S, b, j)) = 0
        BY <2>3 DEF Whole
      <3>2. j \in Nat
        BY <2>0
      <3>3. Anc(R, b, j) = Anc(S, b, j)
        BY <3>1, <3>2, AncGrows
      <3> QED
        BY <2>1, <2>3, <3>1, <3>3
    <2> QED
      BY <2>2, <2>3
  <1> QED
    BY <1>1 DEF Whole

\* The window of a block on top of a complete one
LEMMA WholeAbove ==
    ASSUME NEW S, NEW b \in Block, S \subseteq Block, Parent(b) \in S, Whole(S, Parent(b)),
           Uncles(b) \subseteq S
    PROVE  Whole(S, b)
  <1>0. b # NoBlock /\ Down(S, b) = Parent(b)
    BY ConstantsAssumption DEF Down
  <1>1. ASSUME NEW n \in 0 .. Window - 1
        PROVE  IF Anc(S, b, n) = NoBlock
               THEN \E j \in 0 .. n - 1 : Anc(S, b, j) # NoBlock /\ Height(Anc(S, b, j)) = 0
               ELSE Uncles(Anc(S, b, n)) \subseteq S
    <2>0. n \in Nat /\ Window \in Nat
      BY ConstantsAssumption
    <2>1. CASE n = 0
      <3>1. Anc(S, b, n) = b
        BY <2>1, AncEquation
      <3> QED
        BY <1>0, <3>1
    <2>2. CASE n # 0
      <3>1. n - 1 \in Nat /\ (n - 1) + 1 = n /\ n - 1 \in 0 .. Window - 1
        BY <2>0, <2>2
      <3>2. Anc(S, b, n) = Anc(S, Parent(b), n - 1)
        BY <1>0, <3>1, AncShift
      <3>3. CASE Anc(S, b, n) # NoBlock
        BY <3>1, <3>2, <3>3 DEF Whole
      <3>4. CASE Anc(S, b, n) = NoBlock
        <4>1. PICK j \in 0 .. (n - 1) - 1 : /\ Anc(S, Parent(b), j) # NoBlock
                                            /\ Height(Anc(S, Parent(b), j)) = 0
          BY <3>1, <3>2, <3>4 DEF Whole
        <4>2. j \in Nat /\ j + 1 \in 0 .. n - 1
          BY <2>0
        <4>3. Anc(S, b, j + 1) = Anc(S, Parent(b), j)
          BY <1>0, <4>2, AncShift
        <4> QED
          BY <3>4, <4>1, <4>2, <4>3
      <3> QED
        BY <3>3, <3>4
    <2> QED
      BY <2>1, <2>2
  <1> QED
    BY <1>1 DEF Whole

\* Mined, for the blocks in S
MinedIn(S, p) ==
    UNION {{a} \cup Uncles(a) : a \in
             {Anc(S, p, n) : n \in 0 .. UncleDepth - 1} \ {NoBlock}}

LEMMA MinedIs ==
    ASSUME NEW p
    PROVE  Mined(p) = MinedIn(blocksById, p) /\ Mined(p)' = MinedIn(blocksById', p)
  <1>1. Mined(p) = MinedIn(blocksById, p)
    BY AncestorIsAnc, Zenon DEF Mined, MinedIn
  <1>2. Mined(p)' = MinedIn(blocksById', p)
    BY AncestorIsAnc, Zenon DEF Mined, MinedIn, Uncles
  <1> QED
    BY <1>1, <1>2

LEMMA MinedSame ==
    ASSUME HonestHeights, NEW S, NEW R, S \subseteq R, R \subseteq Block, NEW p \in Block,
           Whole(S, p)
    PROVE  MinedIn(R, p) = MinedIn(S, p)
  <1>1. 0 .. UncleDepth - 1 \subseteq 0 .. Window - 1
    BY ConstantsAssumption
  <1>2. \A n \in 0 .. UncleDepth - 1 : Anc(R, p, n) = Anc(S, p, n)
    BY <1>1, WholeSame
  <1>3. {Anc(R, p, n) : n \in 0 .. UncleDepth - 1} = {Anc(S, p, n) : n \in 0 .. UncleDepth - 1}
    BY <1>2, Zenon
  <1> QED
    BY <1>3, Zenon DEF MinedIn

\* d walks down to height h, as DownTo builds it
Walks(S, h, d) ==
    d = [x \in Block \cup {NoBlock} |->
            IF x = NoBlock THEN NoBlock
            ELSE IF Height(x) <= h THEN x ELSE d[Down(S, x)]]

FirstAt(S, b, h) == (CHOOSE d : Walks(S, h, d))[b]

LEMMA DownToIsFirst ==
    ASSUME NEW b, NEW h
    PROVE  /\ DownTo(b, h) = FirstAt(blocksById, b, h)
           /\ DownTo(b, h)' = FirstAt(blocksById', b, h)
  BY DEF DownTo, FirstAt, Walks, Down, GetParent, Parent, Height

\* The walk down ends, so the function exists
LEMMA WalksExists ==
    ASSUME HonestHeights, NEW S, S \subseteq Block, NEW h
    PROVE  \E d : Walks(S, h, d)
  <1> DEFINE Stop(x, n) == Anc(S, x, n) = NoBlock \/ Height(Anc(S, x, n)) <= h
             Ends(x, n) == Stop(x, n) /\ \A j \in 0 .. n - 1 : ~Stop(x, j)
             End(x) == CHOOSE n \in Nat : Ends(x, n)
             d == [x \in Block \cup {NoBlock} |-> Anc(S, x, End(x))]
  <1>0. NoBlock \notin Block /\ Down(S, NoBlock) = NoBlock
    BY ConstantsAssumption DEF Down
  <1>1. ASSUME NEW x \in Block \cup {NoBlock} PROVE \E n \in Nat : Stop(x, n)
    <2>1. CASE x = NoBlock
      BY <2>1, AncEquation
    <2>2. CASE x \in Block
      <3>1. Height(x) \in Nat /\ Height(x) + 1 \in Nat
        BY <2>2, InfoTypes
      <3>2. Anc(S, x, Height(x) + 1) = NoBlock
        <4>1. SUFFICES ASSUME Anc(S, x, Height(x) + 1) # NoBlock PROVE FALSE
          OBVIOUS
        <4>2. /\ Anc(S, x, Height(x) + 1) \in Block
              /\ Height(Anc(S, x, Height(x) + 1)) + (Height(x) + 1) = Height(x)
          BY <2>2, <3>1, <4>1, AncHeights
        <4>3. Height(Anc(S, x, Height(x) + 1)) \in Nat
          BY <4>2, InfoTypes
        <4> QED
          BY <3>1, <4>2, <4>3
      <3> QED
        BY <3>1, <3>2
    <2> QED
      BY <2>1, <2>2
  <1>2. ASSUME NEW x \in Block \cup {NoBlock} PROVE \E n \in Nat : Ends(x, n)
    <2> DEFINE T == {n \in Nat : Stop(x, n)}
    <2>1. T # {} /\ T \subseteq Nat
      BY <1>1
    <2>2. PICK n \in T : \A m \in T : n <= m
      BY <2>1, LeastNumber
    <2>3. ASSUME NEW j \in 0 .. n - 1 PROVE ~Stop(x, j)
      <3>1. j \in Nat /\ ~(n <= j)
        BY <2>1
      <3> QED
        BY <2>2, <3>1
    <2> QED
      BY <2>1, <2>2, <2>3
  <1>3. ASSUME NEW x, NEW n \in Nat, NEW m \in Nat, Ends(x, n), Ends(x, m) PROVE n = m
    <2>1. n < m => n \in 0 .. m - 1
      OBVIOUS
    <2>2. m < n => m \in 0 .. n - 1
      OBVIOUS
    <2>3. ~(n < m) /\ ~(m < n)
      BY <1>3, <2>1, <2>2, Zenon
    <2> QED
      BY <2>3
  <1> HIDE DEF Stop
  <1>4. ASSUME NEW x \in Block \cup {NoBlock} PROVE End(x) \in Nat /\ Ends(x, End(x))
    BY <1>2, Zenon
  <1>5. ASSUME NEW x \in Block \cup {NoBlock}, x = NoBlock \/ Height(x) <= h
        PROVE  Anc(S, x, End(x)) = x
    <2>1. Anc(S, x, 0) = x
      BY AncEquation
    <2>2. Stop(x, 0)
      BY <1>5, <2>1 DEF Stop
    <2>3. Ends(x, 0)
      BY <2>2
    <2>4. End(x) = 0
      <3>1. End(x) \in Nat /\ Ends(x, End(x)) /\ 0 \in Nat
        BY <1>4, Zenon
      <3> HIDE DEF Ends, End
      <3> QED
        BY <1>3, <2>3, <3>1, Zenon
    <2> QED
      BY <2>1, <2>4
  <1>6. ASSUME NEW x \in Block, ~(Height(x) <= h)
        PROVE  Anc(S, x, End(x)) = Anc(S, Down(S, x), End(Down(S, x)))
    <2> DEFINE y == Down(S, x)
    <2>1. y \in Block \cup {NoBlock}
      BY DEF Down
    <2> HIDE DEF y
    <2>2. ASSUME NEW n \in Nat PROVE Anc(S, x, n + 1) = Anc(S, y, n)
      BY AncShift DEF y
    <2>3. ASSUME NEW n \in Nat PROVE Stop(x, n + 1) <=> Stop(y, n)
      BY <2>2, Zenon DEF Stop
    <2>4. ~Stop(x, 0)
      BY <1>0, <1>6, AncEquation DEF Stop
    <2>5. PICK m \in Nat : m = End(y) /\ Ends(y, m)
      BY <1>4, <2>1, Zenon
    <2>6. Ends(x, m + 1)
      <3>1. Stop(x, m + 1)
        BY <2>3, <2>5
      <3>2. ASSUME NEW j \in 0 .. (m + 1) - 1 PROVE ~Stop(x, j)
        <4>1. CASE j = 0
          BY <2>4, <4>1
        <4>2. CASE j # 0
          <5>1. j - 1 \in Nat /\ j - 1 \in 0 .. m - 1 /\ (j - 1) + 1 = j
            BY <4>2
          <5>2. ~Stop(y, j - 1)
            BY <2>5, <5>1
          <5>3. Stop(x, (j - 1) + 1) <=> Stop(y, j - 1)
            BY <2>3, <5>1
          <5> QED
            BY <5>1, <5>2, <5>3
        <4> QED
          BY <4>1, <4>2
      <3> QED
        BY <3>1, <3>2
    <2>7. End(x) = m + 1
      <3>1. End(x) \in Nat /\ Ends(x, End(x)) /\ m + 1 \in Nat
        <4>1. x \in Block \cup {NoBlock} /\ m + 1 \in Nat
          OBVIOUS
        <4> QED
          BY <1>4, <4>1, Zenon
      <3> HIDE DEF Ends, End
      <3> QED
        BY <1>3, <2>6, <3>1, Zenon
    <2> HIDE DEF End
    <2> QED
      BY <2>2, <2>5, <2>7 DEF y
  <1> HIDE DEF End, Ends
  <1>7. ASSUME NEW x \in Block \cup {NoBlock}
        PROVE  d[x] = IF x = NoBlock THEN NoBlock
                      ELSE IF Height(x) <= h THEN x ELSE d[Down(S, x)]
    <2>1. Down(S, x) \in Block \cup {NoBlock}
      BY DEF Down
    <2>2. d[x] = Anc(S, x, End(x)) /\ d[Down(S, x)] = Anc(S, Down(S, x), End(Down(S, x)))
      BY <2>1
    <2> HIDE DEF d
    <2>3. CASE x = NoBlock \/ Height(x) <= h
      BY <1>5, <2>2, <2>3
    <2>4. CASE x # NoBlock /\ ~(Height(x) <= h)
      BY <1>6, <2>2, <2>4, Zenon
    <2> QED
      BY <2>3, <2>4
  <1>8. d = [x \in Block \cup {NoBlock} |->
               IF x = NoBlock THEN NoBlock
               ELSE IF Height(x) <= h THEN x ELSE d[Down(S, x)]]
    BY <1>7, Zenon
  <1> HIDE DEF d
  <1> QED
    BY <1>8 DEF Walks

LEMMA FirstEquation ==
    ASSUME HonestHeights, NEW S, S \subseteq Block, NEW h, NEW x \in Block
    PROVE  /\ FirstAt(S, NoBlock, h) = NoBlock
           /\ Height(x) <= h => FirstAt(S, x, h) = x
           /\ ~(Height(x) <= h) => FirstAt(S, x, h) = FirstAt(S, Down(S, x), h)
  <1>1. PICK d : Walks(S, h, d) /\ d = CHOOSE e : Walks(S, h, e)
    BY WalksExists, Zenon
  <1>2. \A y : FirstAt(S, y, h) = d[y]
    BY <1>1, Zenon DEF FirstAt
  <1>3. x # NoBlock
    BY ConstantsAssumption
  <1> QED
    BY <1>1, <1>2, <1>3 DEF Walks

\* What was found stays found
LEMMA FirstGrows ==
    ASSUME HonestHeights, NEW S, NEW R, S \subseteq R, R \subseteq Block, NEW h,
           NEW b \in Block, FirstAt(S, b, h) # NoBlock
    PROVE  FirstAt(R, b, h) = FirstAt(S, b, h)
  <1> DEFINE Lost(x) == FirstAt(S, x, h) # NoBlock /\ FirstAt(R, x, h) # FirstAt(S, x, h)
             T == {n \in Nat : \E x \in Block : Height(x) = n /\ Lost(x)}
  <1>0. S \subseteq Block
    OBVIOUS
  <1>1. SUFFICES ASSUME T # {} PROVE FALSE
    <2>1. Height(b) \in Nat
      BY InfoTypes
    <2> QED
      BY <2>1
  <1>2. PICK n \in T : \A m \in T : n <= m
    BY <1>1, LeastNumber
  <1>3. PICK x \in Block : Height(x) = n /\ Lost(x)
    BY <1>2
  <1>4. ~(Height(x) <= h)
    BY <1>0, <1>3, FirstEquation
  <1>5. /\ FirstAt(S, x, h) = FirstAt(S, Down(S, x), h)
        /\ FirstAt(R, x, h) = FirstAt(R, Down(R, x), h)
        /\ FirstAt(S, NoBlock, h) = NoBlock
    BY <1>0, <1>4, FirstEquation
  <1>6. Down(S, x) # NoBlock
    BY <1>3, <1>5
  <1>7. Down(S, x) = Parent(x) /\ Down(R, x) = Parent(x) /\ Parent(x) \in S
    BY <1>6 DEF Down
  <1>8. Parent(x) \in Block /\ Height(x) = Height(Parent(x)) + 1 /\ Height(Parent(x)) \in Nat
    BY <1>0, <1>6, <1>7, InfoTypes DEF HonestHeights
  <1>9. Lost(Parent(x))
    BY <1>3, <1>5, <1>7
  <1>10. Height(Parent(x)) \in T
    BY <1>8, <1>9
  <1> QED
    BY <1>2, <1>3, <1>8, <1>10

\* OnSameChain, for the blocks in S
Related(S, p, u, h) ==
    LET start == FirstAt(S, p, Height(u)) IN
    /\ start # NoBlock /\ Height(start) = Height(u)
    /\ \E n \in 0 .. UncleDepth - 1 :
          /\ Anc(S, start, n) # NoBlock /\ Anc(S, u, n) # NoBlock
          /\ Height(Anc(S, start, n)) + UncleDepth >= h
          /\ Parent(Anc(S, start, n)) = Parent(Anc(S, u, n))

LEMMA SameChainIsRelated ==
    ASSUME NEW p, NEW u, NEW h
    PROVE  /\ OnSameChain(p, u, h) <=> Related(blocksById, p, u, h)
           /\ OnSameChain(p, u, h)' <=> Related(blocksById', p, u, h)
  <1>1. OnSameChain(p, u, h) <=> Related(blocksById, p, u, h)
    <2> DEFINE s == DownTo(p, Height(u))
    <2>1. s = FirstAt(blocksById, p, Height(u))
      BY DownToIsFirst
    <2>2. OnSameChain(p, u, h) <=>
            /\ s # NoBlock /\ Height(s) = Height(u)
            /\ MeetWithin(s, u, {n \in 0 .. UncleDepth - 1 :
                                   /\ Ancestor(s, n) # NoBlock
                                   /\ Height(Ancestor(s, n)) + UncleDepth >= h})
      BY Zenon DEF OnSameChain
    <2> HIDE DEF s
    <2> QED
      BY <2>1, <2>2, AncestorIsAnc DEF Related, MeetWithin
  <1>2. OnSameChain(p, u, h)' <=> Related(blocksById', p, u, h)
    <2> DEFINE s == DownTo(p, Height(u))'
    <2>1. s = FirstAt(blocksById', p, Height(u))
      BY DownToIsFirst DEF Height
    <2>2. OnSameChain(p, u, h)' <=>
            /\ s # NoBlock /\ Height(s) = Height(u)
            /\ \E n \in {n \in 0 .. UncleDepth - 1 :
                            /\ Anc(blocksById', s, n) # NoBlock
                            /\ Height(Anc(blocksById', s, n)) + UncleDepth >= h} :
                  /\ Anc(blocksById', s, n) # NoBlock /\ Anc(blocksById', u, n) # NoBlock
                  /\ Parent(Anc(blocksById', s, n)) = Parent(Anc(blocksById', u, n))
      BY AncestorIsAnc DEF OnSameChain, MeetWithin, Height, Parent
    <2> HIDE DEF s
    <2> QED
      BY <2>1, <2>2 DEF Related
  <1> QED
    BY <1>1, <1>2

LEMMA RelatedGrows ==
    ASSUME HonestHeights, NEW S, NEW R, S \subseteq R, R \subseteq Block, NEW p \in Block,
           NEW u, NEW h, Related(S, p, u, h)
    PROVE  Related(R, p, u, h)
  <1> DEFINE start == FirstAt(S, p, Height(u))
  <1>1. FirstAt(R, p, Height(u)) = start
    BY FirstGrows DEF Related
  <1>2. PICK n \in 0 .. UncleDepth - 1 :
          /\ Anc(S, start, n) # NoBlock /\ Anc(S, u, n) # NoBlock
          /\ Height(Anc(S, start, n)) + UncleDepth >= h
          /\ Parent(Anc(S, start, n)) = Parent(Anc(S, u, n))
    BY DEF Related
  <1>3. start # NoBlock /\ Height(start) = Height(u)
    BY DEF Related
  <1> HIDE DEF start
  <1>4. n \in Nat
    BY ConstantsAssumption
  <1>5. Anc(R, start, n) = Anc(S, start, n) /\ Anc(R, u, n) = Anc(S, u, n)
    BY <1>2, <1>4, AncGrows
  <1> QED
    BY <1>1, <1>2, <1>3, <1>5 DEF Related

\* prune_old_blocks finds nothing to delete in this step
NothingDeleted == blocksById \subseteq blocksById'

\* As long as nothing is deleted, every pointer of the lock holder is good
LEMMA PointersStay ==
    ASSUME TypeOK, ControlOK, StoreInv, NoDanglingPointer, [Next]_vars, NothingDeleted
    PROVE  NoDanglingPointer'
  <1> USE DEF NoDanglingPointer, Stored, NothingDeleted
  <1>1. ASSUME UNCHANGED <<newBlock, cur, highest, toUpdate, toVerify>> PROVE NoDanglingPointer'
    BY <1>1
  <1>2. ASSUME NEW b \in Block, Receive(b) \/ SubmitOwnBlock(b) \/ CheckBlock(b)
                                \/ RejectBlock(b) \/ RetryLater(b)
        PROVE  NoDanglingPointer'
    BY <1>1, <1>2 DEF Receive, SubmitOwnBlock, CheckBlock, RejectBlock, RetryLater,
       checkUnchanged, callVars
  <1>3. ASSUME NEW b \in Block, AddBlock(b) PROVE NoDanglingPointer'
    <2>1. b \notin blocksById
      BY <1>3 DEF AddBlock, StoreInv, NeverAddedTwice
    <2>2. /\ blocksById' = blocksById \cup {b} /\ newBlock' = b /\ toUpdate' = {<<1, b>>}
          /\ UNCHANGED <<cur, toVerify, highest>>
      BY <1>3, <2>1 DEF AddBlock
    <2> QED
      BY <2>2
  <1>4. ASSUME NEW e \in toUpdate, PopToUpdate(e) PROVE NoDanglingPointer'
    <2>1. /\ cur' = e[2] /\ toUpdate' \subseteq toUpdate
          /\ toVerify' \in {toVerify, {<<1, e[2]>>}} /\ highest' \in {highest, NoBlock}
          /\ newBlock' = newBlock
      BY <1>4 DEF PopToUpdate, startVerifyUnchanged
    <2>2. e[2] \in blocksById \cup {NoBlock}
      OBVIOUS
    <2>3. Stored({newBlock, cur, highest})'
      BY <2>1, <2>2
    <2>4. \A f \in toUpdate' \cup toVerify' : f[2] \in blocksById \cup {NoBlock}
      BY <2>1, <2>2
    <2> QED
      BY <2>3, <2>4
  <1>5. ASSUME Propagate PROVE NoDanglingPointer'
    <2>1. PICK top : toUpdate' = toUpdate \cup
            {<<IF x = Parent(cur) THEN top + 1 ELSE top + 2, x>> : x \in Raised(cur)}
      BY <1>5 DEF Propagate
    <2>2. Raised(cur) \subseteq blocksById
      BY DEF Raised
    <2>3. cur' = NoBlock /\ UNCHANGED <<newBlock, toVerify, highest>>
      BY <1>5 DEF Propagate
    <2>4. \A f \in toUpdate' : f[2] \in blocksById \cup {NoBlock}
      BY <2>1, <2>2
    <2> QED
      BY <2>3, <2>4
  <1>6. ASSUME NEW e \in toVerify, VerifyFails(e) PROVE NoDanglingPointer'
    <2>1. toVerify' \subseteq toVerify /\ UNCHANGED <<newBlock, cur, toUpdate, highest>>
      BY <1>6 DEF VerifyFails, verifyUnchanged
    <2> QED
      BY <2>1
  <1>7. ASSUME NEW e \in toVerify, VerifyPasses(e) PROVE NoDanglingPointer'
    <2>1. /\ toVerify' = (toVerify \ {e}) \cup Above(e[1], e[2]) /\ highest' \in {highest, e[2]}
          /\ UNCHANGED <<newBlock, cur, toUpdate>>
      BY <1>7 DEF VerifyPasses, verifyUnchanged
    <2>2. ASSUME NEW f \in Above(e[1], e[2]) PROVE f[2] \in blocksById
      <3>0. e[2] \in Block
        BY DEF TypeOK
      <3>1. PICK i \in 1 .. UncleDepth : \E c \in blocksByHeight[Height(e[2]) + i] :
              f = <<e[1] + i, c>>
        BY DEF Above
      <3>2. PICK c \in blocksByHeight[Height(e[2]) + i] : f = <<e[1] + i, c>>
        BY <3>1
      <3>3. Height(e[2]) + i \in 0 .. TopHeight
        BY <3>0, HeightsAbove
      <3>4. c \in blocksById
        BY <3>2, <3>3 DEF StoreInv, IndexesAgree
      <3> QED
        BY <3>2, <3>4
    <2>3. Stored({newBlock, cur, highest})'
      BY <2>1
    <2>4. \A f \in toUpdate' \cup toVerify' : f[2] \in blocksById \cup {NoBlock}
      BY <2>1, <2>2
    <2> QED
      BY <2>3, <2>4
  <1>8. ASSUME FinishVerifyLoop PROVE NoDanglingPointer'
    <2>1. /\ highest' = NoBlock /\ newBlock' \in {newBlock, NoBlock}
          /\ UNCHANGED <<cur, toUpdate, toVerify>>
      BY <1>8 DEF FinishVerifyLoop
    <2> QED
      BY <2>1
  <1>9. ASSUME FinishUpdateDepths PROVE NoDanglingPointer'
    <2>1. /\ highest' \in {highest, NoBlock} /\ newBlock' \in {newBlock, NoBlock}
          /\ toVerify' \in {toVerify, {<<1, newBlock>>}} /\ UNCHANGED <<cur, toUpdate>>
      BY <1>9 DEF FinishUpdateDepths
    <2>2. newBlock \in blocksById \cup {NoBlock}
      OBVIOUS
    <2>3. Stored({newBlock, cur, highest})'
      BY <2>1
    <2>4. \A f \in toUpdate' \cup toVerify' : f[2] \in blocksById \cup {NoBlock}
      BY <2>1, <2>2
    <2> QED
      BY <2>3, <2>4
  <1>10. ASSUME UpdateBlockTemplate \/ MainchainAdvances \/ TimePasses PROVE NoDanglingPointer'
    BY <1>1, <1>10 DEF UpdateBlockTemplate, MainchainAdvances, TimePasses, callVars
  <1>11. CASE UNCHANGED vars
    BY <1>1, <1>11 DEF vars, callVars
  <1> QED
    BY <1>2, <1>3, <1>4, <1>5, <1>6, <1>7, <1>8, <1>9, <1>10, <1>11
       DEF Next, Worker, LockHolder

\* What update_chain_tip leaves stored keeps its verdict
LEMMA TipKeepsVerdicts ==
    ASSUME TypeOK, NEW b \in Block, UpdateChainTip(b), NothingDeleted, NEW x, Available(x)
    PROVE  Available(x)'
  <1>1. CASE UNCHANGED updateTipVars
    BY <1>1 DEF Available, updateTipVars, storeVars, blockVars
  <1>2. CASE ~UNCHANGED updateTipVars
    <2> DEFINE gone == IF BecomesTip(b) THEN Prunable(b) ELSE {}
    <2>1. Prune(gone)
      BY <1>2 DEF UpdateChainTip
    <2> HIDE DEF gone
    <2>2. x \in Block /\ x \in blocksById' /\ x \notin gone
      BY <2>1 DEF Available, NothingDeleted, Prune, TypeOK
    <2> QED
      BY <2>1, <2>2 DEF Available, Prune
  <1> QED
    BY <1>1, <1>2

\* A block found good stays good as long as nothing is deleted
LEMMA AvailableStays ==
    ASSUME TypeOK, ControlOK, StoreInv, [Next]_vars, NothingDeleted, NEW x, Available(x)
    PROVE  Available(x)'
  <1>0. x \in Block /\ x \in blocksById /\ verified[x] /\ ~invalid[x]
    BY DEF Available, TypeOK
  <1>1. ASSUME UNCHANGED <<verified, invalid>> PROVE Available(x)'
    BY <1>1 DEF Available, NothingDeleted
  <1>2. ASSUME NEW b \in Block, Receive(b) \/ SubmitOwnBlock(b) \/ CheckBlock(b)
                                \/ RejectBlock(b) \/ RetryLater(b)
        PROVE  Available(x)'
    BY <1>1, <1>2 DEF Receive, SubmitOwnBlock, CheckBlock, RejectBlock, RetryLater,
       checkUnchanged, blockVars
  <1>3. ASSUME NEW b \in Block, AddBlock(b) PROVE Available(x)'
    <2>1. b \notin blocksById
      BY <1>3 DEF AddBlock, StoreInv, NeverAddedTwice
    <2> QED
      BY <1>0, <1>3, <2>1 DEF AddBlock, Available, TypeOK
  <1>4. ASSUME NEW e \in toUpdate, PopToUpdate(e) PROVE Available(x)'
    BY <1>1, <1>4 DEF PopToUpdate, startVerifyUnchanged, blockVars
  <1>5. ASSUME Propagate PROVE Available(x)'
    BY <1>1, <1>5 DEF Propagate
  <1>6. ASSUME NEW e \in toVerify, VerifyFails(e) PROVE Available(x)'
    <2>1. /\ UNCHANGED blocksById /\ e[2] \in Block
          /\ verified' = [verified EXCEPT ![e[2]] = @ \/ Verdict(e[2]) = "invalid"]
          /\ invalid' = [invalid EXCEPT ![e[2]] =
               @ \/ (~verified[e[2]] /\ Verdict(e[2]) \in {"invalid", "wrong height"})]
      BY <1>6 DEF VerifyFails, verifyUnchanged, storeVars, TypeOK
    <2> QED
      BY <1>0, <2>1 DEF Available, TypeOK
  <1>7. ASSUME NEW e \in toVerify, VerifyPasses(e) PROVE Available(x)'
    <2>1. /\ UNCHANGED blocksById /\ e[2] \in Block
          /\ verified' = [verified EXCEPT ![e[2]] = TRUE]
          /\ invalid' = [invalid EXCEPT ![e[2]] = FALSE]
      BY <1>7 DEF VerifyPasses, verifyUnchanged, storeVars, TypeOK
    <2> QED
      BY <1>0, <2>1 DEF Available, TypeOK
  <1>8. ASSUME FinishVerifyLoop PROVE Available(x)'
    <2>1. CASE highest = NoBlock
      BY <1>1, <1>8, <2>1 DEF FinishVerifyLoop, updateTipVars, blockVars
    <2>2. CASE highest # NoBlock
      <3>1. highest \in Block
        BY <2>2 DEF TypeOK
      <3> QED
        BY <1>8, <2>2, <3>1, TipKeepsVerdicts DEF FinishVerifyLoop
    <2> QED
      BY <2>1, <2>2
  <1>9. ASSUME FinishUpdateDepths PROVE Available(x)'
    <2>1. newBlock \in Block
      BY <1>9 DEF FinishUpdateDepths, ControlOK, TypeOK
    <2>2. CASE verified[newBlock] /\ ~invalid[newBlock]
      BY <1>9, <2>1, <2>2, TipKeepsVerdicts DEF FinishUpdateDepths
    <2>3. CASE ~verified[newBlock] \/ invalid[newBlock]
      BY <1>1, <1>9, <2>3 DEF FinishUpdateDepths, updateTipVars, blockVars
    <2> QED
      BY <2>2, <2>3
  <1>10. ASSUME UpdateBlockTemplate \/ MainchainAdvances \/ TimePasses PROVE Available(x)'
    BY <1>1, <1>10 DEF UpdateBlockTemplate, MainchainAdvances, TimePasses, blockVars
  <1>11. CASE UNCHANGED vars
    BY <1>1, <1>11 DEF vars, blockVars
  <1> QED
    BY <1>2, <1>3, <1>4, <1>5, <1>6, <1>7, <1>8, <1>9, <1>10, <1>11
       DEF Next, Worker, LockHolder

\* The chain tip changes only to a block with a complete window, and with a new template
\* on its way
LEMMA TipChanges ==
    ASSUME TypeOK, ControlOK, [Next]_vars
    PROVE  \/ chainTip' = chainTip
           \/ templatePending' = TRUE /\ \E b \in Block : chainTip' = b /\ WindowComplete(b)
  <1> DEFINE Goal == \/ chainTip' = chainTip
                     \/ /\ templatePending' = TRUE
                        /\ \E b \in Block : chainTip' = b /\ WindowComplete(b)
  <1>1. ASSUME NEW b \in Block, UpdateChainTip(b) PROVE Goal
    BY <1>1 DEF UpdateChainTip, updateTipVars, tipVars, BecomesTip
  <1>2. ASSUME FinishVerifyLoop PROVE Goal
    <2>1. CASE highest = NoBlock
      BY <1>2, <2>1 DEF FinishVerifyLoop, updateTipVars, tipVars
    <2>2. CASE highest # NoBlock
      <3>1. highest \in Block
        BY <2>2 DEF TypeOK
      <3> HIDE DEF Goal
      <3> QED
        BY <1>1, <1>2, <2>2, <3>1 DEF FinishVerifyLoop
    <2> QED
      BY <2>1, <2>2
  <1>3. ASSUME FinishUpdateDepths PROVE Goal
    <2>1. newBlock \in Block
      BY <1>3 DEF FinishUpdateDepths, ControlOK, TypeOK
    <2>2. CASE verified[newBlock] /\ ~invalid[newBlock]
      <3> HIDE DEF Goal
      <3> QED
        BY <1>1, <1>3, <2>1, <2>2 DEF FinishUpdateDepths
    <2>3. CASE ~verified[newBlock] \/ invalid[newBlock]
      BY <1>3, <2>3 DEF FinishUpdateDepths, updateTipVars, tipVars
    <2> QED
      BY <2>2, <2>3
  <1>4. ASSUME ~FinishVerifyLoop, ~FinishUpdateDepths PROVE chainTip' = chainTip
    BY <1>4 DEF Next, Worker, LockHolder, Receive, SubmitOwnBlock, CheckBlock, RejectBlock,
       RetryLater, checkUnchanged, AddBlock, PopToUpdate, startVerifyUnchanged, Propagate,
       VerifyFails, VerifyPasses, verifyUnchanged, UpdateBlockTemplate, MainchainAdvances,
       TimePasses, vars, tipVars
  <1> QED
    BY <1>2, <1>3, <1>4

\* When no rebuild is pending the template is on the tip
OnTheTip == ~templatePending => template.parent = chainTip

LEMMA OnTheTipStep ==
    ASSUME TypeOK, ControlOK, OnTheTip, [Next]_vars
    PROVE  OnTheTip'
  <1>1. CASE UpdateBlockTemplate
    BY <1>1 DEF UpdateBlockTemplate, FillSidechainData, OnTheTip, tipVars
  <1>2. CASE ~UpdateBlockTemplate
    <2>1. template' = template /\ (templatePending => templatePending')
      <3>1. ASSUME NEW b, UpdateChainTip(b) PROVE templatePending => templatePending'
        BY <3>1 DEF UpdateChainTip, updateTipVars, TypeOK
      <3>2. CASE FinishVerifyLoop \/ FinishUpdateDepths
        BY <3>1, <3>2 DEF FinishVerifyLoop, FinishUpdateDepths, updateTipVars
      <3>3. CASE MainchainAdvances
        BY <3>3 DEF MainchainAdvances
      <3>4. CASE ~(FinishVerifyLoop \/ FinishUpdateDepths \/ MainchainAdvances)
        <4>1. UNCHANGED templateVars
          BY <1>2, <3>4 DEF Next, Worker, LockHolder, Receive, SubmitOwnBlock, CheckBlock,
             RejectBlock, RetryLater, checkUnchanged, AddBlock, PopToUpdate,
             startVerifyUnchanged, Propagate, VerifyFails, VerifyPasses, verifyUnchanged,
             TimePasses, vars
        <4> QED
          BY <4>1 DEF templateVars
      <3> QED
        BY <3>2, <3>3, <3>4
    <2> QED
      BY <2>1, TipChanges DEF OnTheTip
  <1> QED
    BY <1>1, <1>2

\* A rebuild of the template is on its way from the moment the chain tip changes until
\* update_block_template has made one for it: however many tips and wake-ups are skipped,
\* nobody mines on an old tip once the main loop has caught up.  (The first half of
\* TemplateFresh; nothing is assumed about the blocks.)
THEOREM MinersAreOnTheTip == Spec => [](~templatePending => template.parent = chainTip)
  <1>1. Init => OnTheTip
    BY DEF Init, OnTheTip
  <1>2. TypeOK /\ ControlOK /\ OnTheTip /\ [Next]_vars => OnTheTip'
    BY OnTheTipStep
  <1>3. OnTheTip => (~templatePending => template.parent = chainTip)
    BY DEF OnTheTip
  <1> QED
    BY <1>1, <1>2, <1>3, StoreInvariant, PTL DEF Spec

-----------------------------------------------------------------------------
(* What a job promises                                                     *)

\* The members that fill_sidechain_data and get_shares give a block of our own, once its
\* parent and uncles are chosen
OwnAreHonest ==
    \A b \in Own :
      /\ Sorted(Info[b].uncles)
      /\ Parent(b) = NoBlock => Height(b) = 0 /\ GenesisVerdict(b)
      /\ Parent(b) # NoBlock =>
            /\ Cumulative(b) = ExpectedCumulative(b)
            /\ Difficulty(b) = Info[Parent(b)].next
            /\ Info[b].payout

\* u may be an uncle of a block on top of p
GoodUncle(p, u) ==
    /\ Available(u) /\ u \notin Mined(p)
    /\ Height(u) <= Height(p) /\ Height(u) + UncleDepth > Height(p)
    /\ OnSameChain(p, u, Height(p) + 1)

JobGood(b) ==
    Parent(b) # NoBlock =>
        /\ Available(Parent(b)) /\ WindowComplete(Parent(b))
        /\ \A u \in Uncles(b) : GoodUncle(Parent(b), u)

OwnInv ==
    /\ TipIsGood /\ (chainTip # NoBlock => WindowComplete(chainTip))
    /\ \A b \in jobs : JobGood(b)
    /\ \A b \in Block : work[b] = "own" => b \in jobs

\* What comes later leaves jobs as good as they were
LEMMA JobsStayGood ==
    ASSUME HonestHeights, TypeOK, TypeOK', ControlOK, StoreInv, [Next]_vars, NothingDeleted,
           NEW b \in Block, JobGood(b)
    PROVE  JobGood(b)'
  <1> DEFINE p == Parent(b)
             S == blocksById
             R == blocksById'
  <1>0. Parent(b)' = p /\ Uncles(b)' = Uncles(b) /\ Height(p)' = Height(p)
    BY DEF Parent, Uncles, Height
  <1>1. SUFFICES ASSUME p # NoBlock
                 PROVE  /\ Available(p)' /\ WindowComplete(p)'
                        /\ \A u \in Uncles(b) : GoodUncle(p, u)'
    BY <1>0 DEF JobGood
  <1>2. /\ Available(p) /\ WindowComplete(p) /\ p \in Block
        /\ \A u \in Uncles(b) : GoodUncle(p, u)
    BY <1>1 DEF JobGood, Available, TypeOK
  <1>3. S \subseteq R /\ R \subseteq Block
    BY DEF NothingDeleted, TypeOK
  <1>4. Whole(S, p)
    BY <1>2, WindowIsWhole
  <1>5. WindowComplete(p)'
    BY <1>2, <1>3, <1>4, WholeGrows, WindowIsWhole
  <1>6. Mined(p)' = Mined(p)
    BY <1>2, <1>3, <1>4, MinedSame, MinedIs
  <1>7. ASSUME NEW u \in Uncles(b) PROVE GoodUncle(p, u)'
    <2>1. GoodUncle(p, u)
      BY <1>2
    <2>2. Available(u)'
      BY <2>1, AvailableStays DEF GoodUncle
    <2>3. Related(R, p, u, Height(p) + 1)
      BY <1>2, <1>3, <2>1, SameChainIsRelated, RelatedGrows DEF GoodUncle
    <2>4. OnSameChain(p, u, Height(p) + 1)'
      <3>1. \A h : OnSameChain(p, u, h)' <=> Related(R, p, u, h)
        BY SameChainIsRelated
      <3> QED
        BY <2>3, <3>1 DEF Height
    <2> QED
      BY <1>6, <2>1, <2>2, <2>4 DEF GoodUncle, Height
  <1> QED
    BY <1>2, <1>5, <1>7, AvailableStays

\* A new template names a good parent and good uncles
LEMMA NewJobsAreGood ==
    ASSUME TypeOK, StoreInv, OwnInv, UpdateBlockTemplate, NEW b \in jobs' \ jobs
    PROVE  JobGood(b)
  <1>1. Parent(b) = chainTip /\ Uncles(b) = FillSidechainData.uncles
    BY DEF UpdateBlockTemplate, FillSidechainData
  <1>2. SUFFICES ASSUME chainTip # NoBlock
                 PROVE  /\ Available(chainTip) /\ WindowComplete(chainTip)
                        /\ \A u \in FillUncles : GoodUncle(chainTip, u)
    BY <1>1 DEF JobGood, FillSidechainData
  <1>3. Available(chainTip) /\ WindowComplete(chainTip)
    BY <1>2 DEF OwnInv, TipIsGood, Available
  <1>4. ASSUME NEW u \in FillUncles PROVE GoodUncle(chainTip, u)
    <2>1. PICK h \in 0 .. TopHeight : /\ u \in blocksByHeight[h] /\ h <= Height(chainTip)
                                      /\ h + UncleDepth > Height(chainTip)
      BY DEF FillUncles
    <2>2. u \in blocksById /\ Height(u) = h
      BY <2>1 DEF StoreInv, IndexesAgree
    <2> QED
      BY <2>1, <2>2 DEF FillUncles, GoodUncle, Available
  <1> QED
    BY <1>3, <1>4

LEMMA OwnStep ==
    ASSUME HonestHeights, TypeOK, TypeOK', ControlOK, StoreInv, NoDanglingPointer, OwnInv,
           [Next]_vars, NothingDeleted
    PROVE  OwnInv'
  <1>1. TipIsGood'
    BY TipStep DEF OwnInv
  <1>2. blocksById \subseteq blocksById' /\ blocksById' \subseteq Block
    BY DEF NothingDeleted, TypeOK
  <1>3. ASSUME chainTip' # NoBlock PROVE WindowComplete(chainTip)'
    <2>1. PICK t : t = chainTip'
      OBVIOUS
    <2>2. t \in Block /\ WindowComplete(t)
      BY <1>3, <2>1, TipChanges DEF OwnInv, TypeOK
    <2>3. Whole(blocksById', t)
      BY <1>2, <2>2, WholeGrows, WindowIsWhole
    <2>4. \A x : WindowComplete(x)' <=> Whole(blocksById', x)
      BY WindowIsWhole
    <2>5. WindowComplete(chainTip)' <=> Whole(blocksById', chainTip')
      BY AncestorIsAnc, Zenon DEF WindowComplete, Whole, Height, Uncles
    <2> QED
      BY <2>1, <2>3, <2>5
  <1>4. ASSUME NEW b \in jobs' PROVE JobGood(b)'
    <2>1. b \in Block
      BY ConstantsAssumption DEF TypeOK
    <2>2. CASE b \in jobs
      BY <2>1, <2>2, JobsStayGood DEF OwnInv
    <2>3. CASE b \notin jobs
      <3>1. UpdateBlockTemplate
        BY <2>3 DEF Next, Worker, LockHolder, Receive, SubmitOwnBlock, CheckBlock,
           RejectBlock, RetryLater, checkUnchanged, AddBlock, PopToUpdate, startVerifyUnchanged,
           Propagate, VerifyFails, VerifyPasses, verifyUnchanged, FinishVerifyLoop,
           FinishUpdateDepths, MainchainAdvances, TimePasses, vars, templateVars
      <3> QED
        BY <2>1, <2>3, <3>1, NewJobsAreGood, JobsStayGood
    <2> QED
      BY <2>2, <2>3
  <1>5. jobs \subseteq jobs'
    BY DEF Next, Worker, LockHolder, Receive, SubmitOwnBlock, CheckBlock,
       RejectBlock, RetryLater, checkUnchanged, AddBlock, PopToUpdate, startVerifyUnchanged,
       Propagate, VerifyFails, VerifyPasses, verifyUnchanged, FinishVerifyLoop,
       FinishUpdateDepths, UpdateBlockTemplate, MainchainAdvances, TimePasses, vars, templateVars
  <1>6. ASSUME NEW b \in Block, work'[b] = "own" PROVE b \in jobs'
    <2>1. CASE work[b] = "own"
      BY <1>5, <2>1 DEF OwnInv
    <2>2. CASE work[b] # "own"
      <3>1. work' # work
        BY <1>6, <2>2
      <3>2. PICK c \in Block : Receive(c) \/ Worker(c) \/ SubmitOwnBlock(c)
        BY <3>1 DEF Next, LockHolder, PopToUpdate, startVerifyUnchanged,
           Propagate, VerifyFails, VerifyPasses, verifyUnchanged, FinishVerifyLoop,
           FinishUpdateDepths, UpdateBlockTemplate, MainchainAdvances, TimePasses, vars
      <3>3. SubmitOwnBlock(c) /\ c = b
        BY <1>6, <2>2, <3>2 DEF Worker, Receive, SubmitOwnBlock, CheckBlock, RejectBlock,
           RetryLater, AddBlock, TypeOK
      <3> QED
        BY <1>5, <3>3 DEF SubmitOwnBlock
    <2> QED
      BY <2>1, <2>2
  <1> QED
    BY <1>1, <1>3, <1>4, <1>6 DEF OwnInv

\* verify finds nothing wrong with a block made from a good job
LEMMA GoodJobsVerify ==
    ASSUME HonestHeights, OwnAreHonest, TypeOK, NEW b \in Own, JobGood(b)
    PROVE  Verdict(b) = "valid"
  <1> DEFINE p == Parent(b)
             us == Info[b].uncles
  <1>0. b \in Block /\ Height(b) \in Nat
    BY ConstantsAssumption, InfoTypes
  <1>1. CASE p = NoBlock
    BY <1>1 DEF OwnAreHonest, Verdict
  <1>2. CASE p # NoBlock
    <2>1. /\ Available(p) /\ WindowComplete(p) /\ \A u \in Uncles(b) : GoodUncle(p, u)
      BY <1>2 DEF JobGood
    <2>2. p \in Block /\ Height(p) \in Nat /\ Height(b) = Height(p) + 1
      BY <1>0, <1>2, <2>1, InfoTypes DEF Available, TypeOK, HonestHeights
    <2>3. ASSUME NEW u \in Uncles(b) PROVE UncleVerdict(b, u) = "valid"
      <3>1. GoodUncle(p, u) /\ Height(u) \in Nat
        BY <1>0, <2>1, RefTypes, InfoTypes
      <3>2. ~(Height(u) >= Height(b)) /\ ~(Height(u) + UncleDepth < Height(b))
        BY <2>2, <3>1, ConstantsAssumption DEF GoodUncle
      <3>3. OnSameChain(p, u, Height(b))
        BY <2>2, <3>1 DEF GoodUncle
      <3> QED
        BY <3>1, <3>2, <3>3 DEF UncleVerdict, GoodUncle, Available
    <2>4. UnclesVerdict(b) = "valid"
      <3>1. \A i \in DOMAIN us : us[i] \in Uncles(b)
        BY <1>0, RefTypes DEF Uncles, ToSet
      <3>2. {i \in DOMAIN us : UncleVerdict(b, us[i]) # "valid"} = {}
        BY <2>3, <3>1
      <3> QED
        BY <3>2, Zenon DEF UnclesVerdict, OwnAreHonest
    <2>5. WindowComplete(b)
      <3>1. Uncles(b) \subseteq blocksById /\ p \in blocksById /\ blocksById \subseteq Block
        BY <2>1 DEF GoodUncle, Available, TypeOK
      <3>2. Whole(blocksById, p)
        BY <2>1, WindowIsWhole
      <3>3. Whole(blocksById, b)
        BY <1>0, <3>1, <3>2, WholeAbove
      <3> QED
        BY <3>3, WindowIsWhole
    <2>6. PayoutVerdict(b) /\ Cumulative(b) = ExpectedCumulative(b)
      BY <1>2, <2>1, <2>5 DEF OwnAreHonest, PayoutVerdict
    <2>7. Height(b) # 0
      BY <2>2
    <2> QED
      BY <1>2, <2>1, <2>2, <2>4, <2>6, <2>7 DEF Verdict, Available
  <1> QED
    BY <1>1, <1>2

\* A block that our miners find would pass verify, however long after its job was made it
\* comes and whatever has been verified, has become the tip or was found invalid since: in
\* any tree with honest heights, for own blocks with the members that fill_sidechain_data
\* gives them, as long as nothing has been pruned.  (A job does not expire in the model; after
\* a pruning the window of its parent may be gone.)
THEOREM OwnBlocksVerify ==
    HonestHeights /\ OwnAreHonest =>
        (Spec /\ [][NothingDeleted]_vars => []OwnBlockWouldVerify)
  <1> SUFFICES ASSUME HonestHeights, OwnAreHonest
               PROVE  Spec /\ [][NothingDeleted]_vars => []OwnBlockWouldVerify
    OBVIOUS
  <1> DEFINE I == NoDanglingPointer /\ OwnInv
             J == TypeOK /\ ControlOK /\ StoreInv
  <1>1. Init => I
    BY DEF Init, NoDanglingPointer, Stored, OwnInv, TipIsGood
  <1>2. I /\ J /\ J' /\ [Next]_vars /\ [NothingDeleted]_vars => I'
    <2> SUFFICES ASSUME I, J, J', [Next]_vars, [NothingDeleted]_vars PROVE I'
      OBVIOUS
    <2>1. NothingDeleted
      BY DEF NothingDeleted, vars, storeVars
    <2> QED
      BY <2>1, PointersStay, OwnStep
  <1>3. I /\ J => OwnBlockWouldVerify
    <2> SUFFICES ASSUME I, J, NEW b \in Block, work[b] = "own" PROVE Verdict(b) = "valid"
      BY DEF OwnBlockWouldVerify
    <2>1. b \in Own /\ JobGood(b)
      BY DEF OwnInv, TypeOK
    <2> QED
      BY <2>1, GoodJobsVerify
  <1> HIDE DEF I
  <1>4. Spec => []J
    BY StoreInvariant
  <1> HIDE DEF J
  <1> QED
    BY <1>1, <1>2, <1>3, <1>4, PTL DEF Spec

=============================================================================
