----------------------------- MODULE MCServices -----------------------------
(* Unit files of up to four lines of every kind for the parser, and whole   *)
(* ones for the programs: storaged with up to five options in every order,  *)
(* authd with its three commands, and another program.  Some names, paths   *)
(* and command lines are longer than what walud keeps of them.              *)
EXTENDS Services

Repeat(s, n) == FlattenSeq([i \in 1 .. n |-> s])

\* A name of 64 bytes, and a path of 181.
LongName == "n123456789n123456789n123456789n123456789n123456789n123456789last"
LongPath == "/" \o LongName \o LongName \o SubSeq(LongName, 1, 52)

Lines == {Header("Unit"), Header("Service"), Broken, Other,
          Setting("Description", <<"x">>), Setting("User", <<"alice">>),
          Setting("User", <<LongName>>)}
Fragments == UNION {[1 .. n -> Lines] : n \in 0 .. 4}

Whole(words, user, restart) ==
    <<Header("Unit"), Setting("Description", <<"x">>), Header("Service"),
      Setting("ExecStart", words), Setting("User", user), Setting("Restart", restart)>>

OptionUnits == {<<"--device", "/dev/a">>, <<"--device", "/dev/b">>, <<"--confirm", "/dev/a">>,
                <<"--force">>, <<"--yes">>, <<"--dry-run">>}
Orders == UNION {{s \in [1 .. n -> OptionUnits] : IsInjective(s)} : n \in 0 .. 5}
Formats == {<<"/storaged", "format">> \o FlattenSeq(s) : s \in Orders}
StoragedCommands ==
    Formats \cup {<<"/storaged">>,
                  <<"/storaged", "format", "--device">>,
                  <<"/storaged", "format", "--device", "file", "--confirm", "file", "--force", "--yes">>,
                  <<"/storaged", "format", "--device", "--force", "--yes">>,
                  <<"/storaged", "format", "--device", "/dev/a", "--confirm">>,
                  <<"/storaged", "format", "--device", "/dev/a", "--confirm", "--device",
                    "--confirm", "/dev/a", "--force", "--yes">>,
                  <<"/storaged", "probe", "--device", "/dev/a">>,
                  <<"/storaged", "probe", "--device", "file">>,
                  <<"/storaged", "probe", "/dev/a">>,
                  \* 255 bytes end at the blank after --yes, and in --yes.
                  <<"/storaged", "format", "--device", LongPath, "--device", "/dev/a",
                    "--confirm", "/dev/a", "--force", "--yes", "--confirm", "/dev/b">>,
                  <<"/storaged", "format", "--dry-run", "--device", LongPath, "--device",
                    "/dev/a", "--confirm", "/dev/a", "--yes", "--force">>}

AuthdCommands == {
    <<"/authd">>,
    <<"/authd", "help", "me">>,
    <<"/authd", "verify", "--user", "alice", "--password-stdin">>,
    <<"/authd", "verify", "--password-stdin", "--user", "carol", "--user", "bob">>,
    <<"/authd", "verify", "--user", "alice">>,
    <<"/authd", "verify", "--user", "bob", "--password-stdin", "--shadow", "--user",
      "--user", "alice">>,
    <<"/authd", "verify", "--user", "carol", "--shadow", "copy", "--password-stdin">>,
    <<"/authd", "policy-check", "--stdin">>,
    <<"/authd", "policy-check", "weak">>,
    <<"/authd", "shadow-state", "!h1">>,
    <<"/authd", "shadow-state", "h1">>,
    \* The 31st word is alice.
    <<"/authd", "verify", "--password-stdin">> \o Repeat(<<"--user", "x">>, 13)
        \o <<"--user", "alice", "--user", "bob">>}

MCUnitFiles ==
    Fragments
    \cup {Whole(words, <<>>, <<"no">>) : words \in StoragedCommands \cup AuthdCommands}
    \cup {Whole(<<path>>, user, restart) :
              path \in {"/other", "other"},
              user \in {<<>>, <<"root">>, <<"alice">>, <<"ghost">>, <<LongName>>},
              restart \in {<<>>, <<"always">>, <<"always", LongName>>}}

\* The words of the unit files, and whatever is left of them.
Values == UNION {{line.value : line \in {l \in Range(file) : l.is = "set"}} :
                     file \in MCUnitFiles}
MCWord == UNION {{SubSeq(w, 1, n) : n \in 0 .. Len(w)} : w \in UNION {Range(v) : v \in Values}}
MCBytes == [w \in MCWord |-> Len(w)]
MCPrefix == [w \in MCWord |-> [n \in 0 .. Len(w) - 1 |-> SubSeq(w, 1, n)]]
MCAbsolute == {w \in MCWord : w # "" /\ SubSeq(w, 1, 1) = "/"}

\* Cut is the first bytes of the text that the words make.
Text(words) ==
    LET upTo[n \in 0 .. Len(words)] ==
            IF n = 0 THEN "" ELSE upTo[n - 1] \o (IF n = 1 THEN "" ELSE " ") \o words[n]
    IN  upTo[Len(words)]
ASSUME CutIsText ==
    \A v \in Values, f \in Fields :
        Text(Cut(v, Room(f))) = SubSeq(Text(v), 1, Min({Room(f), Len(Text(v))}))

Alice == [uid |-> 1, gid |-> 1]
Cutter == [uid |-> 3, gid |-> 2]        \* the user of the first 63 bytes
MCPasswd == <<"alice">> :> Alice @@ <<SubSeq(LongName, 1, 63)>> :> Cutter
MCOwnIds == {Root, Alice, [uid |-> 2, gid |-> 1]}

MCHashes == "h1" :> "Secret-Words1" @@ "h2" :> "weak"
MCPassword == "Secret-Words1" :> [len |-> 13, kinds |-> {"upper", "lower", "digit", "symbol"}]
              @@ "weak" :> [len |-> 4, kinds |-> {"lower"}]
Entry(name, hash) == <<name, hash, "19000">>
MCShadowFiles == {
    NoFile,
    <<>>,
    <<Entry("alice", "h1"), Entry("bob", "")>>,
    <<Entry("bob", "h2"), Entry("alice", "!h1"), Entry("carol", "*")>>,
    <<Entry("alice", "h2"), Entry("alice", "h1"), Entry("carol", "h1")>>,
    <<<<>>, <<"alice">>, <<"carol", "", "">>, Entry("carol", "h2"), <<"alice", "h2">>>>}
=============================================================================
