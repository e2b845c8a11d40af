---------------------------- MODULE CommandLine ----------------------------
(***************************************************************************)
(* The option loops of the services' main functions: flags and options     *)
(* with a value, in any order, the last one of a name in force.            *)
(***************************************************************************)
EXTENDS Integers, Sequences

Usage == [ok |-> FALSE, given |-> <<>>]

\* A later option of the same name is in force already.
Under(given, name, value) ==
    [n \in DOMAIN given \cup {name} |-> IF n \in DOMAIN given THEN given[n] ELSE value]

\* What the words from the i-th on give; a word that is no option, or an
\* option without its value, fails.
Options(argv, valued, flags) ==
    LET from[i \in 1 .. Len(argv) + 2] ==
            IF i > Len(argv) THEN [ok |-> TRUE, given |-> <<>>]
            ELSE IF argv[i] \in valued /\ i < Len(argv)
                 THEN IF from[i + 2].ok
                      THEN [ok |-> TRUE,
                            given |-> Under(from[i + 2].given, argv[i], argv[i + 1])]
                      ELSE Usage
            ELSE IF argv[i] \in flags
                 THEN IF from[i + 1].ok
                      THEN [ok |-> TRUE, given |-> Under(from[i + 1].given, argv[i], "")]
                      ELSE Usage
            ELSE Usage
    IN  from[1]

Given(options, name) == options.ok /\ name \in DOMAIN options.given
=============================================================================
