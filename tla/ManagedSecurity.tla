-------------------------- MODULE ManagedSecurity --------------------------
(* The managed security directory: certificate authority, server and client *)
(* certificates, and what the local commands write there, file by file.      *)
(*                                                                           *)
(* An authority is a number, a certificate the number of its signer's key;   *)
(* names, dates, the PEM and DER forms and file permissions are left out.    *)
EXTENDS Naturals, Sequences, FiniteSets, SequencesExt

CONSTANTS
    Profiles,       \* directories client profiles are written to
    Devices

None == 0
NoProfile == [crt |-> None, signer |-> None, identity |-> <<>>, key |-> None,
              ca |-> {}]

EmptyDirectory ==
  [caCrt |-> None, caKey |-> None, archive |-> {}, bundle |-> {},
   serverCrt |-> [signer |-> None, key |-> None], serverKey |-> None,
   revoked |-> {}, registry |-> {},
   profile |-> [d \in Profiles |-> NoProfile], cas |-> 0, serials |-> 0]

HasAuthority(sec) == sec.caCrt # None /\ sec.caKey # None
HasIdentity(sec) ==
  sec.caCrt # None \/ sec.caKey # None \/ sec.serverCrt.key # None
    \/ sec.serverKey # None
Trusted(sec) == IF sec.bundle = {} THEN {sec.caCrt} ELSE sec.bundle
Active(sec, identity) ==
  {r \in sec.registry : r.identity = identity /\ r.serial \notin sec.revoked}
ActiveOn(sec, identity, device) ==
  {r \in Active(sec, identity) : r.device = device}

-----------------------------------------------------------------------------
(* The files a command writes, in order *)
Step(what) == [what |-> what]
Revocation(serial) == [what |-> "revoke", serial |-> serial]
ClientStep(what, identity, device, d) ==
  [what |-> what, identity |-> identity, device |-> device, profile |-> d]
Refresh(d) == [what |-> "refresh", profile |-> d]

GenerateManagedCa == <<Step("ca_certificate"), Step("ca_key")>>
IssueServerCertificate == <<Step("server_certificate"), Step("server_key")>>

IssueClient(identity, device, d) ==
  LET Files == <<"client_certificate", "client_key", "client_ca", "record">>
  IN [i \in DOMAIN Files |-> ClientStep(Files[i], identity, device, d)]

RevokeAll(records) ==
  LET serials == SetToSeq({r.serial : r \in records})
  IN [i \in DOMAIN serials |-> Revocation(serials[i])]

BugRefreshProfiles(sec) == <<>>
RefreshProfiles(sec) ==
  LET dirs == SetToSeq({r.profile : r \in sec.registry})
  IN [i \in DOMAIN dirs |-> Refresh(dirs[i])]

\* A command: its writes, and whether it succeeds when all are done.  "named"
\* is a command given at least one server name or address.
Command(op, todo, ok) == [op |-> op, todo |-> todo, ok |-> ok]

\* Initialization never overwrites an identity.
Initialize(sec) ==
  IF HasIdentity(sec) THEN {}
  ELSE {Command("init",
          GenerateManagedCa \o <<Step("bundle")>> \o IssueServerCertificate
            \o <<Step("no_revocations"), Step("no_records")>>, TRUE)}

\* Names are looked at only when the new authority is in place.
Rotate(sec, named) ==
  IF ~HasAuthority(sec) THEN {}
  ELSE LET authority == <<Step("archive")>> \o GenerateManagedCa
                          \o <<Step("bundle")>>
       IN {IF named
           THEN Command("rotate", authority \o IssueServerCertificate
                                    \o RefreshProfiles(sec), TRUE)
           ELSE Command("rotate", authority, FALSE)}

Reissue(sec) ==
  IF ~HasAuthority(sec) THEN {}
  ELSE {Command("reissue", IssueServerCertificate, TRUE)}

Issue(sec, identity, device, d) ==
  IF ~HasAuthority(sec) THEN {}
  ELSE {Command("issue", IssueClient(identity, device, d), TRUE)}

\* Renewing revokes before it looks at the options of the new certificate.
Renew(sec, identity, device, d, valid) ==
  LET revocations == RevokeAll(ActiveOn(sec, identity, device))
  IN IF HasAuthority(sec) /\ valid
     THEN {Command("renew",
                   revocations \o IssueClient(identity, device, d), TRUE)}
     ELSE {Command("renew", revocations, FALSE)}

\* The flag in the record is rewritten too; every reader derives it anew.
Revoke(sec) ==
  {Command("revoke", <<Revocation(r.serial)>>, TRUE) : r \in sec.registry}
RemoveIdentity(sec, identity) ==
  {Command("remove", RevokeAll(Active(sec, identity)), TRUE)}

-----------------------------------------------------------------------------
(* One write *)
Serial(sec) == sec.serials + 1

\* The authority: its old certificate set aside, certificate, key, bundle.
AuthorityFiles == {"archive", "ca_certificate", "ca_key", "bundle"}
AuthorityWritten(sec, what) ==
  CASE what = "archive" ->
         [sec EXCEPT !.archive = @ \cup {sec.caCrt}]
    [] what = "ca_certificate" ->
         [sec EXCEPT !.caCrt = sec.cas + 1, !.cas = sec.cas + 1]
    [] what = "ca_key" ->
         [sec EXCEPT !.caKey = sec.cas]
    [] what = "bundle" ->
         [sec EXCEPT !.bundle = {sec.caCrt} \cup sec.archive]

ServerFiles ==
  {"server_certificate", "server_key", "no_revocations", "no_records"}
ServerWritten(sec, what) ==
  CASE what = "server_certificate" ->
         [sec EXCEPT !.serverCrt = [signer |-> sec.caKey, key |-> Serial(sec)],
                     !.serials = Serial(sec)]
    [] what = "server_key" ->
         [sec EXCEPT !.serverKey = sec.serverCrt.key]
    [] what = "no_revocations" -> [sec EXCEPT !.revoked = {}]
    [] what = "no_records" -> [sec EXCEPT !.registry = {}]

\* The files of one profile, and its record in the registry.
ProfileWritten(sec, profile, step) ==
  CASE step.what = "client_certificate" ->
         [profile EXCEPT !.crt = Serial(sec), !.signer = sec.caKey,
                         !.identity = step.identity]
    [] step.what = "client_key" -> [profile EXCEPT !.key = profile.crt]
    [] step.what = "client_ca" -> [profile EXCEPT !.ca = Trusted(sec)]
    [] step.what = "refresh" -> [profile EXCEPT !.ca = sec.bundle]

ClientWritten(sec, step) ==
  LET d == step.profile
      written == ProfileWritten(sec, sec.profile[d], step)
      record == [serial |-> sec.profile[d].crt, identity |-> step.identity,
                 device |-> step.device, profile |-> d]
  IN CASE step.what = "client_certificate" ->
            [sec EXCEPT !.profile[d] = written, !.serials = Serial(sec)]
       [] step.what \in {"client_key", "client_ca", "refresh"} ->
            [sec EXCEPT !.profile[d] = written]
       [] step.what = "record" ->
            [sec EXCEPT !.registry = @ \cup {record}]
       [] step.what = "revoke" ->
            [sec EXCEPT !.revoked = @ \cup {step.serial}]

Written(sec, step) ==
  IF step.what \in AuthorityFiles THEN AuthorityWritten(sec, step.what)
  ELSE IF step.what \in ServerFiles THEN ServerWritten(sec, step.what)
  ELSE ClientWritten(sec, step)

-----------------------------------------------------------------------------
(* Connecting *)
\* A server loads its certificate and the trusted authorities when it starts,
\* and does not start when they do not fit.
ServerLoads(sec) ==
  /\ sec.serverCrt.key # None
  /\ sec.serverKey = sec.serverCrt.key
  /\ Trusted(sec) # {None}
TlsRuntime(sec) == [roots |-> Trusted(sec), signer |-> sec.serverCrt.signer]

\* Each side checks the other's certificate against the authorities it has.
Handshake(profile, tls) ==
  /\ profile.crt # None /\ profile.key = profile.crt
  /\ tls.signer \in profile.ca
  /\ profile.signer \in tls.roots
=============================================================================
