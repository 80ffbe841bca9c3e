--------------------------- MODULE MCAuthorityTags ---------------------------
(* Instances of AuthorityTags for TLC.                                      *)
EXTENDS AuthorityTags

CONSTANTS dialog, editor, other

\* A rule for the dialogs of an editor, and a second editor in another hut.
MCHutOf == (dialog :> "a") @@ (editor :> "a") @@ (other :> "b")
MCAppOf == (dialog :> "dialog") @@ (editor :> "editor") @@ (other :> "editor")
MCRules == <<[target |-> "dialog", main |-> "editor"]>>
=============================================================================
