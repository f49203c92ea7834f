--------------------------- MODULE MCMailboxImport ---------------------------
(* An instance of MailboxImport for TLC: one file names a new address twice,  *)
(* the other moves the account and brings the same legacy key to another      *)
(* mailbox.  A behaviour begins with a record or a template to check          *)
(* (ImportRows), and stays there, or with none.                               *)
EXTENDS MailboxImport, ImportRows, TLC

CONSTANTS a1, a2, l1, p1, k1

MCAliased == {[box |-> a1, alias |-> l1]}

Keyed == [box |-> a2, cred |-> TRUE, acct |-> None, key |-> k1]
Again == [box |-> a2, cred |-> FALSE, acct |-> None, key |-> None]
Known == [box |-> a1, cred |-> TRUE, acct |-> None, key |-> k1]
Moved == [box |-> a2, cred |-> FALSE, acct |-> p1, key |-> None]
MCFiles == {<<Keyed, Again>>, <<Moved, Known>>}

-----------------------------------------------------------------------------
E == <<>>
Space == <<"blank">>
Word == <<"word">>
Odd == <<"word", "quote", "dash", "dash", "word">>
Torn == <<"word", "quote", "word">>

\* Every value of a credential, and every value of an account and a key.
Credentials ==
    {[address |-> <<"user", d>>, provider |-> p, credential_kind |-> kind, client_id |-> client, password |-> password,
      refresh_token |-> refresh, username |-> name, imap_port |-> port, expires_at |-> time] :
        d \in {"@gmail", "@own"}, p \in {E, <<"microsoft">>, <<"cloudflare_route">>},
        kind \in {E, <<"gmail_oauth">>, <<"imap_password">>}, client \in {E, Space, Odd},
        password \in {E, Word}, refresh \in {E, Word}, name \in {E, Word},
        port \in {E, <<"993">>, <<"port">>}, time \in {E, <<"time">>}}
OtherRecords ==
    {[address |-> <<"user", d>>, pickup_key |-> key, platform |-> platform,
      platform_external_reference |-> external, platform_token |-> token] :
        d \in {"@outlook", "@own"}, key \in {E, Space, Word}, platform \in {E, <<"shop">>, <<"?">>},
        external \in {E, Space, Word}, token \in {E, Torn}}

\* Templates with every kind of literal around two of three targets, and one
\* without a literal.
Bar == <<"bar">>
MCTemplateRecords ==
    [address : {E, Word, <<"word", "bar", "word">>}, client_id : {E, Odd, <<"bar">>, <<"line", "word">>}, platform : {Word}]
Bare ==
    [prefix |-> E, suffix |-> E, literals |-> <<E, E>>, separator |-> <<"line">>,
     variables |-> <<[target |-> "client_id", json |-> FALSE]>>,
     default |-> [client_id |-> E], required |-> {}]
MCTemplates ==
    {Bare} \cup
    {[prefix |-> outer, suffix |-> outer, literals |-> <<outer, between, last>>, separator |-> separator,
      variables |-> <<[target |-> "address", json |-> FALSE], [target |-> "client_id", json |-> json]>>,
      default |-> [address |-> E, client_id |-> E, platform |-> Word], required |-> {"address"}] :
        outer \in {E, Bar}, between \in {E, Bar, <<"bar", "bar">>}, last \in {E, Bar},
        separator \in {<<"line">>, <<"bar">>}, json \in BOOLEAN}

MCEntries == Credentials \cup OtherRecords
MCDefaults == {[kind |-> E, platform |-> E], [kind |-> <<"microsoft_dual_token">>, platform |-> <<"shop">>]}
MCPorts == {<<"993">>}
MCTimes == {<<"time">>}
MCNamespaces == {<<"shop">>}

ImportInit == Init /\ InputChosen
ImportSpec ==
  /\ ImportInit /\ [][input = Nothing /\ Next /\ UNCHANGED input]_<<vars, input>>
  /\ Progress
=============================================================================
