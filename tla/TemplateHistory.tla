--------------------------- MODULE TemplateHistory ---------------------------
(***************************************************************************)
(* What a BlockTemplate promises the miners: the template of the last      *)
(* update and a fixed number of those before it can be asked for by their  *)
(* ID, and no others.                                                      *)
(***************************************************************************)
EXTENDS Naturals

CONSTANT OldTemplates    \* how many old templates can still be asked for

VARIABLES newest,        \* ID of the current template
          known          \* IDs that can be asked for

Init == newest = 1 /\ known = {1}

Next ==
    /\ newest' = newest + 1
    /\ known' = {id \in known \cup {newest'} : id + OldTemplates >= newest'}

Spec == Init /\ [][Next]_<<newest, known>>

=============================================================================
