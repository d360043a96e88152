------------------------------ MODULE MCContract ------------------------------
(***************************************************************************)
(* Contract with the constants TLC checks it on.                           *)
(***************************************************************************)
EXTENDS Contract

\* A text that may be a parameter, and one that may not.
SomeTexts == {"words", "arn"}

\* A good source, two kinds of source, and a text that is refused where there is no kind.
SomeSources == {<<<<"pointer", "path">>, <<"jsonKey", "name">>>>,
                <<<<"pointer", "path">>, <<"parameter", "name">>>>,
                <<<<"jsonKey", "arn">>>>}

OneEnvironment == <<"dev">>
==============================================================================
