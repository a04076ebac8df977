------------------------- MODULE MCPlaylistManager -------------------------
(* The instances of PlaylistManager that TLC checks.                        *)
EXTENDS PlaylistManager, TLC

CONSTANTS a, x

\* Plain media and containers: x holds two media, plain ones if there are any.
Both == {a, x}
OnlyContainers == {x}
MCChildren == [m \in Media |-> IF m # x THEN <<>>
                               ELSE IF a \in Media THEN <<a, a>> ELSE <<x, x>>]
MCLists == {<<>>} \cup IF a \in Media THEN {<<a, x>>} ELSE {<<x, x>>}

\* What is saved is not read within one process.
Unsaved == <<[pl EXCEPT !.saved = NothingSaved], expansions, lastList>>
=============================================================================
