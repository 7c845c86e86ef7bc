---------------------------- MODULE BlockTemplate ----------------------------
(***************************************************************************)
(* class BlockTemplate as its users see it: the current template, the ring *)
(* of old ones, and the share that a template becomes.  A template is its  *)
(* ID; what update() puts into it is in module TemplateContents.           *)
(*                                                                         *)
(* update() holds the write lock from beginning to end and every reader    *)
(* takes the lock, so each operation is one step.                          *)
(***************************************************************************)
EXTENDS Integers

CONSTANT OldTemplates    \* array_size(m_oldTemplates)

ASSUME TemplateAssumption == OldTemplates \in Nat \ {0}

VARIABLES
    templateId,          \* m_templateId
    oldTemplates,        \* m_oldTemplates: the ID of each
    chain                \* templates that became blocks of the side chain

templateVars == <<templateId, oldTemplates, chain>>

\* The first template is made before the servers start
TemplateInit ==
    /\ templateId = 1
    /\ oldTemplates = [i \in 0 .. OldTemplates - 1 |-> 0]
    /\ chain = {}

Slot(id) == id % OldTemplates

\* Mutant of Update: the template is stored once its ID is gone
UpdateThenStore ==
    /\ templateId' = templateId + 1
    /\ oldTemplates' = [oldTemplates EXCEPT ![Slot(templateId')] = templateId]
    /\ UNCHANGED chain

\* update(): the template goes to the ring, a new one takes its place
Update ==
    /\ oldTemplates' = [oldTemplates EXCEPT ![Slot(templateId)] = templateId]
    /\ templateId' = templateId + 1
    /\ UNCHANGED chain

\* get_difficulties, get_hashing_blob and get_block_template_blob find a template
Available(id) == id = templateId \/ oldTemplates[Slot(id)] = id

\* The template such a call works on
Found(id) == IF id = templateId THEN id ELSE oldTemplates[Slot(id)]

\* Mutant of SubmitSidechainBlock: old templates are forgotten
SubmitSidechainBlockCurrent(id) ==
    chain' = chain \cup (IF id = templateId THEN {id} ELSE {})

\* submit_sidechain_block: the ID of the side chain's block has neither nonce in it,
\* so block_seen() knows the second share of a template
SubmitSidechainBlock(id) ==
    chain' = chain \cup (IF Available(id) THEN {Found(id)} ELSE {})

\* Old templates have older IDs
TemplateTypeOK ==
    /\ templateId \in Nat \ {0}
    /\ oldTemplates \in [0 .. OldTemplates - 1 -> 0 .. templateId - 1]
    /\ chain \subseteq 1 .. templateId

\* The ring behind Available is the sliding window of TemplateHistory
History == INSTANCE TemplateHistory
    WITH newest <- templateId, known <- {id \in 1 .. templateId : Available(id)}

=============================================================================
