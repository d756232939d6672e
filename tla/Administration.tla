--------------------------- MODULE Administration ---------------------------
(* The local processes around a storage root: a server, administrators who   *)
(* change the users, and the certificate commands.  A server reads the       *)
(* security directory once, when it starts, the users and the revocations    *)
(* for every connection.  bootstrap-admin is a certificate command followed  *)
(* by an administrator.                                                      *)
EXTENDS StorageLock, ManagedSecurity, Configuration, TLC

CONSTANTS
    Users, Services,    \* names
    Handlers,           \* threads of a server that change users
    Mixes,              \* the kinds of processes run together, with the file
                        \* and the options their servers are given
    MaxCommands         \* certificate commands

ASSUME MixesAssumption ==
  \A m \in Mixes : m.kinds \subseteq {"server", "admin", "tool", "other"}

VARIABLES
    mix,            \* the kinds, file and options of this behaviour
    tls,            \* server -> what it loaded, or NoTls
    users,          \* the users file, when it is whole
    torn,           \* the users file is empty
    job,            \* the change each handler is making
    expected,       \* the users the acknowledged changes should leave
    overlapped,     \* two handlers of one server changed users together
    sec,            \* the security directory
    command,        \* the certificate command being run, or NoCommand
    ready,          \* profiles whose issuing was acknowledged
    interrupted,    \* what a stopped or refused command left half way
    commands

vars == <<lockVars, mix, tls, users, torn, job, expected, overlapped, sec,
          command, ready, interrupted, commands>>
usersVars == <<users, torn, job, expected, overlapped>>
secVars == <<mix, sec, command, ready, interrupted, commands>>

NoTls == [roots |-> {}, signer |-> None]
Unmanaged == [roots |-> {None}, signer |-> None]
NoJob == [phase |-> "none"]
Done == [phase |-> "done"]
NoCommand == [op |-> "none", todo |-> <<>>, ok |-> TRUE]

UserIdentity(u) == <<"user", u>>
ServiceIdentity(s) == <<"service", s>>
Identities ==
  {UserIdentity(u) : u \in Users} \cup {ServiceIdentity(s) : s \in Services}

-----------------------------------------------------------------------------
(* The users file *)
NoUser == [known |-> FALSE, identities |-> {}, scopes |-> {}]
User(identities, scopes) ==
  [known |-> TRUE, identities |-> identities, scopes |-> scopes]

\* Adding a user replaces it; granting or revoking makes one that is missing.
CreateUserRequests ==
  {[what |-> "add", user |-> u, identities |-> I] :
     u \in Users, I \in SUBSET {ServiceIdentity(s) : s \in Services}}
DropUserRequests == {[what |-> "drop", user |-> u] : u \in Users}
PermissionRequests ==
  {[what |-> w, user |-> u] : w \in {"grant", "revoke"}, u \in Users}
Changes == CreateUserRequests \cup DropUserRequests \cup PermissionRequests

Changed(registry, c) ==
  LET old == registry[c.user]
  IN [registry EXCEPT ![c.user] =
        CASE c.what = "add" -> User(c.identities, {})
          [] c.what = "drop" -> NoUser
          [] c.what = "grant" -> User(old.identities, {"scope"})
          [] c.what = "revoke" -> User(old.identities, {})]

\* A server's requests do not wait for the lock.
BugMayChange(p, h) ==
  /\ lock[p].phase = "held" \/ life[p].kind = "server"
  /\ job[p][h] = NoJob

\* An administrator's process changes users under the lock, a server's
\* threads under the lock the server holds, with none between them.
MayChange(p, h) ==
  /\ lock[p].phase = "held" /\ job[p][h] = NoJob
  /\ life[p].kind = "server" \/ h = (CHOOSE x \in Handlers : TRUE)

SetJob(p, h, j) == job' = [job EXCEPT ![p][h] = j]
Changing == {x \in Pids \X Handlers : job[x[1]][x[2]] # NoJob}

Forget(P) == job' = [p \in Pids |-> IF p \in P THEN [h \in Handlers |-> NoJob]
                                    ELSE job[p]]

\* A file that is not whole refuses the change.
ReadRegistry(p, h, c) ==
  /\ MayChange(p, h)
  /\ ~torn
  /\ SetJob(p, h, [phase |-> "read", change |-> c, copy |-> users])
  /\ overlapped' = (overlapped \/ \E x \in Changing : x[1] = p)
  /\ UNCHANGED <<lockVars, tls, users, torn, expected, secVars>>

\* fs::write: the file is emptied, then filled.
TruncateRegistry(p, h) ==
  /\ job[p][h].phase = "read"
  /\ torn' = TRUE
  /\ SetJob(p, h, [job[p][h] EXCEPT !.phase = "write"])
  /\ UNCHANGED <<lockVars, tls, users, expected, overlapped, secVars>>

WriteRegistry(p, h) ==
  /\ job[p][h].phase = "write"
  /\ LET j == job[p][h]
     IN /\ users' = Changed(j.copy, j.change)
        /\ expected' = Changed(expected, j.change)
  /\ torn' = FALSE
  /\ SetJob(p, h, IF life[p].kind = "admin" THEN Done ELSE NoJob)
  /\ UNCHANGED <<lockVars, tls, overlapped, secVars>>

-----------------------------------------------------------------------------
(* Processes *)
StartProcess(p) ==
  \E kind \in mix.kinds \ {"tool"} :
    /\ kind = "server" => Accepted(mix.file, mix.options)
    /\ Start(p, kind)
    /\ UNCHANGED <<tls, usersVars, secVars>>

Managed == FromArgs(mix.file, mix.options).mode = "managed"

\* Only a server whose certificate and key fit goes on to take the lock; the
\* files of an external authority are taken to fit.
LoadTls(p) ==
  /\ life[p].kind = "server" /\ tls[p] = NoTls
  /\ Managed => ServerLoads(sec)
  /\ tls' = [tls EXCEPT ![p] = IF Managed THEN TlsRuntime(sec)
                               ELSE Unmanaged]
  /\ UNCHANGED <<lockVars, usersVars, secVars>>

\* Where certificate commands run, a server is followed no further.
AskForLock(p) ==
  /\ "tool" \notin mix.kinds
  /\ life[p].kind = "admin" \/ tls[p] # NoTls
  /\ Ask(p)
  /\ UNCHANGED <<boot, ticks, life, marker, exposed, starts, tls, usersVars,
                 secVars>>

AcquireLock(p) == Acquire(p) /\ UNCHANGED <<tls, usersVars, secVars>>

\* An administrator's guard goes with its one change, a server's with the
\* server.
ReleaseLock(p) ==
  /\ lock[p].phase = "held"
  /\ \A h \in Handlers : job[p][h] \in {NoJob, Done}
  /\ Release(p)
  /\ Forget({p})
  /\ UNCHANGED <<boot, ticks, life, exposed, starts, tls, users, torn,
                 expected, overlapped, secVars>>

\* What a stop cuts short.  A server certificate without its key does not
\* load; a rotation that did not reach the profiles leaves them behind.
LeftHalfWay(c) ==
  (IF \E i \in DOMAIN c.todo : c.todo[i].what = "server_key"
   THEN {"server"} ELSE {})
    \cup (IF c.op = "rotate" THEN {"profiles"} ELSE {})

Abandon(P) ==
  IF command.op # "none" /\ command.by \in P
  THEN /\ command' = NoCommand
       /\ interrupted' = interrupted \cup LeftHalfWay(command)
  ELSE UNCHANGED <<command, interrupted>>

Gone(P) ==
  /\ tls' = [p \in Pids |-> IF p \in P THEN NoTls ELSE tls[p]]
  /\ Forget(P) /\ Abandon(P)
  /\ UNCHANGED <<users, torn, expected, overlapped, mix, sec, ready, commands>>

EndProcess(p) ==
  /\ life[p] # NoProcess
  /\ End(p) /\ Gone({p})

RebootAll == Reboot /\ Gone(Pids)
AgeMarker == Age /\ UNCHANGED <<tls, usersVars, secVars>>

-----------------------------------------------------------------------------
(* Certificate commands.  Nothing in the code excludes two at once; that     *)
(* they are run one after the other is a bound of this model.                *)
\* wardrobe-server's init, rotate-ca and reissue-server-certificate.
ServerCommands ==
  Initialize(sec) \cup Reissue(sec) \cup Rotate(sec, TRUE)
    \cup Rotate(sec, FALSE)

Options == [identity : Identities, device : Devices, profile : Profiles]
IssueWith(o) == Issue(sec, o.identity, o.device, o.profile)
RenewWith(o, valid) == Renew(sec, o.identity, o.device, o.profile, valid)

IdentityCommands ==
  (UNION {IssueWith(o) : o \in Options})
    \cup (UNION {RenewWith(o, valid) : o \in Options, valid \in BOOLEAN})
    \cup (UNION {RemoveIdentity(sec, i) : i \in Identities})

\* A certificate is renewed by identity, or by serial where it was put.
RenewalTargets ==
  Options \cup {[identity |-> r.identity, device |-> r.device,
                 profile |-> r.profile] : r \in sec.registry}
CertificateCommands ==
  (UNION {IssueWith(o) : o \in Options})
    \cup (UNION {RenewWith(o, valid) :
                   o \in RenewalTargets, valid \in BOOLEAN})
    \cup Revoke(sec)

Commands == ServerCommands \cup IdentityCommands \cup CertificateCommands

Overwritten(c) ==
  {s.profile : s \in {x \in Range(c.todo) : x.what = "client_certificate"}}

BeginCommand(p) ==
  /\ "tool" \in mix.kinds /\ command = NoCommand /\ commands < MaxCommands
  /\ \E c \in Commands :
       /\ c.todo # <<>>
       /\ command' = [op |-> c.op, todo |-> c.todo, ok |-> c.ok, by |-> p,
                      issues |-> Overwritten(c)]
       /\ ready' = ready \ Overwritten(c)
  /\ Start(p, "tool")
  /\ commands' = commands + 1
  /\ UNCHANGED <<mix, tls, usersVars, sec, interrupted>>

WriteFile(p) ==
  /\ command.op # "none" /\ command.by = p /\ command.todo # <<>>
  /\ sec' = Written(sec, Head(command.todo))
  /\ command' = [command EXCEPT !.todo = Tail(@)]
  /\ UNCHANGED <<lockVars, tls, usersVars, mix, ready, interrupted,
                 commands>>

\* A completed rotation brings everything up to date.
Repaired(c) ==
  CASE c.op = "rotate" -> {"server", "profiles"}
    [] c.op \in {"reissue", "init"} -> {"server"}
    [] OTHER -> {}

EndCommand(p) ==
  /\ command.op # "none" /\ command.by = p /\ command.todo = <<>>
  /\ IF command.ok
     THEN /\ ready' = ready \cup command.issues
          /\ interrupted' = interrupted \ Repaired(command)
     ELSE /\ interrupted' = interrupted \cup LeftHalfWay(command)
          /\ UNCHANGED ready
  /\ command' = NoCommand
  /\ End(p)
  /\ UNCHANGED <<mix, tls, usersVars, sec, commands>>

-----------------------------------------------------------------------------
\* The directory "init" leaves.
Initialized ==
  LET After(s, what) == Written(s, Step(what))
      authority == After(After(After(EmptyDirectory, "ca_certificate"),
                               "ca_key"), "bundle")
  IN After(After(authority, "server_certificate"), "server_key")

Init ==
  /\ LockInit
  /\ mix \in Mixes /\ ("tool" \in mix.kinds => marker = NoMarker)
  /\ tls = [p \in Pids |-> NoTls]
  /\ users = [u \in Users |-> NoUser] /\ torn = FALSE /\ expected = users
  /\ job = [p \in Pids |-> [h \in Handlers |-> NoJob]]
  /\ overlapped = FALSE
  /\ sec \in {Initialized}
              \cup (IF "tool" \in mix.kinds THEN {EmptyDirectory} ELSE {})
  /\ command = NoCommand
  /\ ready = {} /\ interrupted = {} /\ commands = 0

Next ==
  \/ \E p \in Pids :
       \/ StartProcess(p) \/ LoadTls(p) \/ AskForLock(p) \/ AcquireLock(p)
       \/ ReleaseLock(p) \/ EndProcess(p)
       \/ BeginCommand(p) \/ WriteFile(p) \/ EndCommand(p)
       \/ \E h \in Handlers :
            \/ TruncateRegistry(p, h) \/ WriteRegistry(p, h)
            \/ \E c \in Changes : ReadRegistry(p, h, c)
  \/ RebootAll
  \/ AgeMarker

Spec == Init /\ [][Next]_vars

-----------------------------------------------------------------------------
(* Properties *)

\* An acknowledged change of the users is not lost (access_control.rs): the
\* lock keeps servers and administrators apart across stops, reboots, reused
\* process ids and markers of older versions.  Two threads of one server
\* overwrite each other's changes, which is set apart.
UserChangesKept ==
  ~torn /\ ~overlapped /\ ~exposed => users = expected

\* "Existing client certificates remain usable during the migration"
\* (README.md): in every state between commands, a server that starts can
\* load its certificate, and it and the client of a profile that was issued
\* and not revoked accept each other; a server still running on what it loaded
\* before is accepted too.  This needs every rotation that was refused or cut
\* short to be run again.
ProfilesConnect ==
  command = NoCommand /\ interrupted = {} /\ HasAuthority(sec) =>
    /\ ServerLoads(sec)
    /\ \A d \in ready :
         sec.profile[d].crt \notin sec.revoked =>
           /\ Handshake(sec.profile[d], TlsRuntime(sec))
           /\ \A p \in Pids :
                tls[p] \notin {NoTls, Unmanaged} =>
                  tls[p].signer \in sec.profile[d].ca
=============================================================================
