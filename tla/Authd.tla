------------------------------- MODULE Authd -------------------------------
(***************************************************************************)
(* The authentication service (authd.c).  It keeps no state: each command  *)
(* is a function from its arguments, its input and the shadow file to its  *)
(* exit code.  A shadow file is a sequence of lines, a line a sequence of  *)
(* fields, and a field that is "" is empty.  A line of input is a word.    *)
(***************************************************************************)
EXTENDS CommandLine, FiniteSetsExt

CONSTANTS
    Locked,         \* the fields that start with '!' or '*'
    Unusable,       \* the fields crypt takes no salt from
    Hashes,         \* the password each real hash is made of
    Password        \* of each password its length and kinds of characters

NoFile == <<<<"no file">>>>
NoInput == "no input"

\* The first rule that is broken.
check_policy(password) ==
    LET kinds == Password[password].kinds
    IN  IF Password[password].len < 12 THEN 1
        ELSE IF "upper" \notin kinds THEN 2
        ELSE IF "lower" \notin kinds THEN 3
        ELSE IF "digit" \notin kinds THEN 4
        ELSE IF "symbol" \notin kinds THEN 5
        ELSE 0

check_shadow_hash_state(hash) ==
    IF hash = "" THEN 1 ELSE IF hash \in Locked THEN 2 ELSE 0

\* strtok_r: an empty field is no token, so the next one is taken for it.
Tokens(line) == {k \in DOMAIN line : line[k] # ""}
NameAt(line) == Min(Tokens(line))
HashAt(line) == Min(Tokens(line) \ {NameAt(line)})

\* The lines with a name, which is the user's, and a hash.
Entries(file, user) ==
    {i \in DOMAIN file :
        /\ \E k, n \in Tokens(file[i]) : k # n
        /\ file[i][NameAt(file[i])] = user}

\* Mutation: the loop does not stop at the user's line.
LastShadowHash(file, user) ==
    LET line == file[Max(Entries(file, user))] IN line[HashAt(line)]

parse_shadow_hash(file, user) ==
    LET line == file[Min(Entries(file, user))] IN line[HashAt(line)]

\* crypt: whether it gives back the hash.
Matches(password, hash) == hash \in DOMAIN Hashes /\ Hashes[hash] = password

verify_user_password(user, password, file) ==
    IF file = NoFile THEN 8
    ELSE IF Entries(file, user) = {} THEN 7
    ELSE LET hash == parse_shadow_hash(file, user)
         IN  IF check_shadow_hash_state(hash) # 0
             THEN IF check_shadow_hash_state(hash) = 1 THEN 9 ELSE 10
             ELSE IF hash \in Unusable THEN 11
             ELSE IF Matches(password, hash) THEN 0 ELSE 12

\* The verify command: its options, then a line from the standard input.
verify(argv, input, file) ==
    LET options == Options(Tail(argv), {"--user", "--shadow"}, {"--password-stdin"})
    IN  IF ~ Given(options, "--user") \/ ~ Given(options, "--password-stdin") THEN 1
        ELSE IF input = NoInput THEN 6
        ELSE verify_user_password(options.given["--user"], input, file)

policy_check(word, input) ==
    IF word # "--stdin" THEN check_policy(word)
    ELSE IF input = NoInput THEN 6
    ELSE check_policy(input)

shadow_state(hash) ==
    IF check_shadow_hash_state(hash) = 0 THEN 0 ELSE check_shadow_hash_state(hash) + 1

\* main; argv are the words after "authd".
authd(argv, input, file) ==
    IF Len(argv) < 2 THEN 1
    ELSE CASE argv[1] = "policy-check" -> policy_check(argv[2], input)
           [] argv[1] = "verify"       -> verify(argv, input, file)
           [] argv[1] = "shadow-state" -> shadow_state(argv[2])
           [] OTHER                    -> 1
=============================================================================
