----------------------------- MODULE ImportRows -----------------------------
(***************************************************************************)
(* What one record of an imported file becomes, and what an exported       *)
(* mailbox looks like (service/importexport.go): a format maps columns to  *)
(* targets, the mapped values are checked, and a row without errors is     *)
(* sealed into a mailbox with its credential, key and platform account.    *)
(* The preview shows the errors of a row; a row that cannot be sealed      *)
(* fails the whole import.                                                 *)
(*                                                                         *)
(* Targets of one sort share one: `imap_host` stands for the text fields   *)
(* of a connection, `imap_port` also for use_tls, `expires_at` also for    *)
(* refresh_after, `platform_token` for both secrets of an account.         *)
(***************************************************************************)
EXTENDS MailboxTemplates

CONSTANTS
    Entries,     \* records that are imported: texts by target
    Defaults,    \* parser settings of the formats: default kind and platform
    Ports, Times, Namespaces,   \* the texts that are valid ones
    Templates, TemplateRecords  \* templates, and records they are written with

Text == Seq(STRING)
ASSUME EntriesAssumption == \A entry \in Entries : \A t \in DOMAIN entry : entry[t] \in Text
ASSUME DefaultsAssumption == Defaults \subseteq [kind : Text, platform : Text]
ASSUME TemplatesAssumption ==
    \A t \in Templates :
      /\ t.prefix \in Text /\ t.suffix \in Text /\ t.separator \in Text /\ t.literals \in Seq(Text)
      /\ t.variables \in Seq([target : STRING, json : BOOLEAN]) /\ Len(t.literals) = Len(t.variables) + 1
      /\ \A values \in TemplateRecords : \A target \in DOMAIN t.default :
            target \in DOMAIN values /\ values[target] \in Seq(STRING \ {Escape})

\* What is imported or exported: a record in a format with these defaults, or
\* two records by a template.  It stays as it is.
VARIABLE input

Nothing == [kind |-> "nothing"]
InputChosen ==
    \/ input = Nothing
    \/ \E default \in Defaults, entry \in Entries : input = [kind |-> "record", default |-> default, entry |-> entry]
    \/ \E t \in Templates, first \in TemplateRecords, second \in TemplateRecords :
         input = [kind |-> "template", template |-> t, records |-> <<first, second>>]

AllTargets == <<"provider", "address", "credential_kind", "client_id", "password", "refresh_token", "pickup_key",
                "username", "imap_host", "imap_port", "expires_at",
                "platform", "platform_external_reference", "platform_token">>
Targets == ToSet(AllTargets)

Gmail == <<"gmail">>
Microsoft == <<"microsoft">>
OAuth == <<"gmail_oauth">>
Graph == <<"microsoft_graph_oauth">>
Password == <<"imap_password">>

-----------------------------------------------------------------------------
\* Parsing.  A format has its fields in an order, each with a column, a target,
\* a default and whether it is required.  The columns of a file with a header
\* may come in another order; an empty value is replaced by the default.
ColumnOf(format, header, i) ==
    IF header = <<>> THEN i ELSE Max({k \in DOMAIN header : header[k] = format.fields[i].column})

OrDefault(value, field) == IF value = Empty THEN field.default ELSE value

Mapped(format, value, broken) ==
    [values |-> [t \in Targets |->
                   IF \E i \in DOMAIN format.fields : format.fields[i].target = t
                     THEN value[CHOOSE i \in DOMAIN format.fields : format.fields[i].target = t]
                     ELSE Empty],
     broken |-> broken \/ \E i \in DOMAIN format.fields : format.fields[i].required /\ value[i] = Empty]

ParseDelimited(format, header, line) ==
    LET parsed == ParseLine(line)
        cells == parsed.values
        expected == IF header = <<>> THEN Len(format.fields) ELSE Len(header)
        value == [i \in DOMAIN format.fields |->
                    LET k == ColumnOf(format, header, i)
                    IN  OrDefault(IF k <= Len(cells) THEN Trim(cells[k]) ELSE Empty, format.fields[i])]
    IN  Mapped(format, value, parsed.unclosed \/ Len(cells) # expected)

ParseJSON(format, object) ==
    LET value == [i \in DOMAIN format.fields |->
                    LET column == format.fields[i].column
                    IN  OrDefault(IF column \in DOMAIN object THEN object[column] ELSE Empty, format.fields[i])]
    IN  Mapped(format, value, FALSE)

-----------------------------------------------------------------------------
\* Checking.
Providers == {Gmail, Microsoft, <<"cloudflare_route">>}

\* A domain that names its provider.
Infer(address) == IF Trim(address) = <<"user", "@gmail">> THEN Gmail
                  ELSE IF Trim(address) = <<"user", "@outlook">> THEN Microsoft ELSE Empty
AddressOK(address) == Len(Trim(address)) = 2

ProviderOf(format, v) ==
    IF format.provider # Empty THEN format.provider
    ELSE IF Trim(v["provider"]) = Empty /\ format.fromAddress THEN Infer(v["address"])
    ELSE Trim(v["provider"])

KindOf(format, v, provider) ==
    LET kind == Trim(IF Trim(v["credential_kind"]) = Empty THEN format.kind ELSE v["credential_kind"])
    IN  IF kind # Empty THEN kind
        ELSE IF v["password"] # Empty /\ v["refresh_token"] = Empty THEN Password
        ELSE IF provider = Gmail THEN OAuth ELSE Graph

ConnectionDeclared(v) == \E t \in {"username", "imap_host", "imap_port"} : Trim(v[t]) # Empty

CredentialDeclared(v) ==
    \/ Trim(v["credential_kind"]) # Empty \/ ConnectionDeclared(v) \/ Trim(v["expires_at"]) # Empty
    \/ \E t \in {"client_id", "password", "refresh_token"} : v[t] # Empty

\* Gmail has two kinds of credentials, each complete and without the fields of
\* the other's connection.
SlipGmailComplete(v, kind) ==
    \/ kind = OAuth /\ v["client_id"] # Empty /\ ~ConnectionDeclared(v)
    \/ kind = Password /\ v["password"] # Empty
GmailComplete(v, kind) ==
    \/ kind = OAuth /\ v["client_id"] # Empty /\ v["refresh_token"] # Empty /\ ~ConnectionDeclared(v)
    \/ kind = Password /\ v["password"] # Empty

Build(format, raw) ==
    LET v == raw.values
        provider == ProviderOf(format, v)
        kind == KindOf(format, v, provider)
        platform == IF Trim(v["platform"]) = Empty THEN Trim(format.platform) ELSE Trim(v["platform"])
        named == Trim(v["username"])
    IN  [valid |-> /\ ~raw.broken /\ provider \in Providers /\ AddressOK(v["address"])
                   /\ Trim(v["imap_port"]) \in Ports \cup {Empty}
                   /\ Trim(v["expires_at"]) \in Times \cup {Empty}
                   /\ (provider = Gmail /\ CredentialDeclared(v)) => GmailComplete(v, kind)
                   /\ (v["platform_external_reference"] # Empty \/ v["platform_token"] # Empty) => platform # Empty,
         provider |-> provider, address |-> Trim(v["address"]), kind |-> kind,
         client |-> v["client_id"], password |-> v["password"], refresh |-> v["refresh_token"], key |-> v["pickup_key"],
         username |-> IF provider = Gmail /\ kind = Password /\ CredentialDeclared(v) /\ named = Empty
                        THEN Trim(v["address"]) ELSE named,
         host |-> Trim(v["imap_host"]), port |-> Trim(v["imap_port"]), expires |-> Trim(v["expires_at"]),
         platform |-> platform, external |-> v["platform_external_reference"], token |-> v["platform_token"]]

-----------------------------------------------------------------------------
\* Sealing.
NotGiven == [present |-> FALSE]
Fails == [failed |-> TRUE]

HasCredential(row) ==
    \E text \in {row.client, row.password, row.refresh, row.username, row.host, row.port, row.expires} : text # Empty

Secret(row) ==
    LET full == [client |-> row.client, refresh |-> row.refresh, username |-> row.username,
                 password |-> row.password, host |-> row.host, port |-> row.port]
    IN  CASE row.provider = Gmail /\ row.kind = OAuth ->
               [full EXCEPT !.username = Empty, !.password = Empty, !.host = Empty, !.port = Empty]
          [] row.provider = Gmail /\ row.kind # OAuth -> [full EXCEPT !.client = Empty, !.refresh = Empty]
          [] row.provider = Microsoft -> full
          [] OTHER -> [full EXCEPT !.username = IF @ = Empty /\ row.password # Empty THEN row.address ELSE @]

SecretFails(row) ==
    /\ row.provider = Gmail
    /\ ~ \/ row.kind = OAuth /\ row.client # Empty /\ row.refresh # Empty
         \/ row.kind = Password /\ row.password # Empty

HasAccount(row) == row.platform # Empty /\ (row.token # Empty \/ row.external # Empty)
Reference(row) == IF row.external = Empty THEN <<"import">> \o row.address ELSE row.external

SealFails(row) ==
    \/ row.key # Empty /\ Trim(row.key) = Empty
    \/ HasCredential(row) /\ SecretFails(row)
    \/ HasAccount(row) /\ (row.platform \notin Namespaces \/ Trim(Reference(row)) = Empty)

Seal(row) ==
    IF SealFails(row) THEN Fails
    ELSE [failed |-> FALSE, provider |-> row.provider, address |-> row.address, key |-> Trim(row.key),
          credential |-> IF HasCredential(row)
                           THEN [present |-> TRUE, kind |-> row.kind, client |-> row.client,
                                 expires |-> row.expires, secret |-> Secret(row)]
                           ELSE NotGiven,
          account |-> IF HasAccount(row)
                        THEN [present |-> TRUE, platform |-> row.platform, external |-> Reference(row), token |-> row.token]
                        ELSE NotGiven]

-----------------------------------------------------------------------------
\* Exporting, with the sensitive fields.  The import stores of a key its digest
\* only (insertImportedPickupKey), so what Reveal exports is another key, one
\* that is kept encrypted: the automatic one.
AutomaticKey == <<"key">>

ExportValues(item) ==
    LET c == item.credential
        a == item.account
        credential == IF ~c.present THEN [t \in {} |-> Empty]
                      ELSE [credential_kind |-> c.kind, expires_at |-> c.expires,
                            client_id |-> IF c.client = Empty THEN c.secret.client ELSE c.client,
                            username |-> c.secret.username, imap_host |-> c.secret.host, imap_port |-> c.secret.port,
                            refresh_token |-> c.secret.refresh, password |-> c.secret.password]
        account == IF ~a.present THEN [t \in {} |-> Empty]
                   ELSE [platform |-> a.platform, platform_external_reference |-> a.external,
                         platform_token |-> a.token]
        mailbox == [address |-> item.address, provider |-> item.provider,
                    pickup_key |-> AutomaticKey]
    IN  [t \in Targets |-> IF t \in DOMAIN mailbox THEN mailbox[t]
                          ELSE IF t \in DOMAIN credential THEN credential[t]
                          ELSE IF t \in DOMAIN account THEN account[t] ELSE Empty]

ExportLine(format, item) ==
    EncodeLine([i \in DOMAIN format.fields |-> ExportValues(item)[format.fields[i].target]])
ExportObject(format, item) ==
    [column \in {format.fields[i].column : i \in DOMAIN format.fields} |->
        LET i == CHOOSE k \in DOMAIN format.fields : format.fields[k].column = column
        IN  ExportValues(item)[format.fields[i].target]]

-----------------------------------------------------------------------------
\* A format with a field for every target; the columns have their names.
Complete(default) ==
    [provider |-> Empty, fromAddress |-> TRUE, kind |-> default.kind, platform |-> default.platform,
     fields |-> [i \in DOMAIN AllTargets |-> [column |-> AllTargets[i], target |-> AllTargets[i], default |-> Empty,
                                              required |-> AllTargets[i] = "address"]]]
Header(format) == [i \in DOMAIN format.fields |-> format.fields[i].column]

Imported == Build(Complete(input.default), ParseJSON(Complete(input.default), input.entry))

\* A row the preview shows as valid (importexport.go:432) can be sealed
\* (importexport.go:557, 631): one row cannot fail the import of the others
\* after the preview has passed it.  The exceptions are values no check of the
\* row looks at: a platform that is no namespace, and a key or a reference
\* that is blank.
ValidRowsSeal ==
    input.kind = "record" =>
        LET row == Imported
            unchecked == \/ row.platform \notin Namespaces \cup {Empty}
                         \/ \E text \in {row.key, row.external} : text # Empty /\ Trim(text) = Empty
        IN  (row.valid /\ ~unchecked) => ~SealFails(row)

\* What an import has stored, but for its key, comes back when it is exported
\* with its secrets and imported again (importexport.go:691), in JSON or in
\* delimited lines with or without a header in another order: quotes, delimiters
\* and empty fields change nothing, and no credential turns into one of another
\* kind.  The key comes back as the automatic one, whatever key was imported.
\* Delimited values are trimmed, and one that ends like a delimiter begins
\* takes a part of the delimiter behind it.  Templates are read back as they
\* were written (MailboxTemplates).
Plain(text) == Trim(text) = text /\ (text # Empty => Last(text) # Dash)
RecordComesBack ==
    LET row == Imported
        item == Seal(row)
        format == Complete(input.default)
        other == [format EXCEPT !.fields = Reverse(@)]
        stored == [item EXCEPT !.key = AutomaticKey]
        again(raw) == LET back == Build(format, raw) IN back.valid /\ Seal(back) = stored
    IN  (row.valid /\ ~SealFails(row)) =>
          /\ again(ParseJSON(format, ExportObject(format, item)))
          /\ (\A t \in Targets : Plain(ExportValues(item)[t])) =>
                /\ again(ParseDelimited(format, <<>>, ExportLine(format, item)))
                /\ again(ParseDelimited(format, Header(other), ExportLine(other, item)))
ExportComesBack ==
    /\ input.kind = "record" => RecordComesBack
    /\ input.kind = "template" => TemplateComesBack(input.template, input.records[1], input.records[2])
=============================================================================
