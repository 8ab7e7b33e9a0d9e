----------------------------- MODULE MCEconomy -----------------------------
(* Small instances of Economy for TLC. *)
EXTENDS Economy, TLC

CONSTANTS r1, r2, r3, s1, s2, s3, s4

Command(op, asset, player, target, amount, source) ==
    [op |-> op, asset |-> asset, player |-> player, target |-> target,
     amount |-> amount, source |-> source, admin |-> FALSE]

\* admin.execute_command of the command.
Execute(command) == [command EXCEPT !.admin = TRUE]

\* Three requests, the first of them submitted twice.
Retry == (s1 :> r1) @@ (s2 :> r2) @@ (s3 :> r3) @@ (s4 :> r1)

\* The submissions of r1 are interchangeable, and so are r2 and r3 with theirs.
Others == (r2 :> r3) @@ (r3 :> r2) @@ (s2 :> s3) @@ (s3 :> s2)
Symmetry ==
    Permutations({s1, s4}) \cup {p \in Permutations({r2, r3, s2, s3}) : p = Others}

\* Three requests, each submitted once.
Three == (s1 :> r1) @@ (s2 :> r2) @@ (s3 :> r3)

\* Two requests, each submitted once.
Two == (s1 :> r1) @@ (s2 :> r2)

\* Changes, transfers in both directions, and a reward claim next to the commands that touch
\* neither, those that are refused included.
Mixed ==
    {Command("debit", "currency", 1, 1, 2, 0), Command("credit", "currency", 2, 2, 1, 0),
     Command("transfer", "currency", 1, 2, 2, 0), Command("transfer", "currency", 2, 1, 1, 0),
     Command("claim", "currency", 1, 1, 1, 0), Command("get", "currency", 2, 2, 1, 0),
     Command("credit", "currency", 1, 1, 3, 0),
     Command("entitle", "entitlement", 1, 1, 1, 0), Command("revoke", "entitlement", 1, 1, 1, 0),
     Execute(Command("transfer", "currency", 1, 2, 2, 0))}

\* Changes, transfers in both directions, claims of the reward from two sources, experience and
\* an objective, and an admin's change.
Everything ==
    {Command("credit", "currency", 1, 1, 2, 0), Command("debit", "currency", 1, 1, 2, 0),
     Command("transfer", "currency", 1, 2, 2, 0), Command("transfer", "currency", 2, 1, 1, 0),
     Command("claim", "currency", 1, 1, 1, 0), Command("claim", "currency", 1, 1, 1, 1),
     Command("addXP", "xp", 1, 1, 2, 0), Command("objective", "xp", 1, 1, 1, 0),
     Execute(Command("credit", "currency", 1, 1, 1, 0))}

TwoGrants == <<<<"currency", 1>>, <<"item", 1>>>>

AtLeastZero == [a \in Limited |-> 0]
Tight == [a \in Limited |-> 3]

\* A reward whose second grant is a currency amount of 0.
ZeroGrant == <<<<"item", 1>>, <<"currency", 0>>>>

\* Player 2 has money, player 1 no row yet.
SecondFunded == [a \in Accounts |-> IF a = <<"currency", 2>> THEN 2 ELSE 0]

\* Player 1 has money, player 2 no row yet.
OneFunded == [a \in Accounts |-> IF a = <<"currency", 1>> THEN 2 ELSE 0]
=============================================================================
