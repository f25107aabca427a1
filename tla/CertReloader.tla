---------------------------- MODULE CertReloader ----------------------------
(***************************************************************************)
(* The certificate reloader (pkg/security/tls): on every tick it compares   *)
(* the modification times of the two files with those of the certificate it *)
(* serves, and loads the pair when one is newer.  The files are replaced    *)
(* one after the other while it works; a certificate belongs to a key, and  *)
(* several may share one.  Every write has a later modification time.       *)
(***************************************************************************)
EXTENDS Integers, Functions

CONSTANTS
    KeyOf,              \* certificate -> key; certificates and keys are numbers from 1
    ExpiredCerts,       \* those ValidateCertificate rejects
    MaxReplacements     \* bound on writes

VARIABLES
    certFile, keyFile,  \* [version, time]; version 0: there is no file
    serving,            \* [version, certTime, keyTime]
    reloader,           \* reloadLoop
    stat,               \* the times reload has seen
    certRead,           \* the certificate it has read
    writes

certVars == <<certFile, keyFile, serving, reloader, stat, certRead, writes>>

CertInit(v) ==
    /\ certFile = [version |-> v, time |-> 1] /\ keyFile = [version |-> KeyOf[v], time |-> 1]
    /\ serving = [version |-> v, certTime |-> 1, keyTime |-> 1]
    /\ reloader = "idle" /\ stat = <<1, 1>> /\ certRead = 0 /\ writes = 1

Present == certFile.version # 0 /\ keyFile.version # 0

needsReload ==
    /\ reloader = "idle" /\ Present
    /\ certFile.time > serving.certTime \/ keyFile.time > serving.keyTime
    /\ reloader' = "stat"
    /\ UNCHANGED <<certFile, keyFile, serving, stat, certRead, writes>>

(* reload: the times first, then the files (LoadX509KeyPair), then the      *)
(* check of the certificate.  An error leaves everything as it was.         *)
StatFiles ==
    /\ reloader = "stat"
    /\ reloader' = IF Present THEN "certificate" ELSE "idle"
    /\ stat' = <<certFile.time, keyFile.time>>
    /\ UNCHANGED <<certFile, keyFile, serving, certRead, writes>>
ReadCertificate ==
    /\ reloader = "certificate"
    /\ reloader' = IF certFile.version = 0 THEN "idle" ELSE "key"
    /\ certRead' = certFile.version
    /\ UNCHANGED <<certFile, keyFile, serving, stat, writes>>
ReadKeyLateTimes ==   \* faulty: the times are taken after the files are read
    /\ reloader = "key" /\ reloader' = "idle"
    /\ serving' = IF keyFile.version = KeyOf[certRead] /\ certRead \notin ExpiredCerts
                  THEN [version |-> certRead, certTime |-> certFile.time, keyTime |-> keyFile.time] ELSE serving
    /\ UNCHANGED <<certFile, keyFile, stat, certRead, writes>>
ReadKey ==
    /\ reloader = "key" /\ reloader' = "idle"
    /\ serving' = IF keyFile.version = KeyOf[certRead] /\ certRead \notin ExpiredCerts
                  THEN [version |-> certRead, certTime |-> stat[1], keyTime |-> stat[2]] ELSE serving
    /\ UNCHANGED <<certFile, keyFile, stat, certRead, writes>>

ReplaceCert(v) ==
    /\ writes < MaxReplacements
    /\ writes' = writes + 1 /\ certFile' = [version |-> v, time |-> writes + 1]
    /\ UNCHANGED <<keyFile, serving, reloader, stat, certRead>>
ReplaceKey(v) ==
    /\ writes < MaxReplacements
    /\ writes' = writes + 1 /\ keyFile' = [version |-> v, time |-> writes + 1]
    /\ UNCHANGED <<certFile, serving, reloader, stat, certRead>>

Reloading == needsReload \/ StatFiles \/ ReadCertificate \/ ReadKey
CertNext == Reloading \/ (\E v \in DOMAIN KeyOf \cup {0} : ReplaceCert(v)) \/ (\E k \in Range(KeyOf) \cup {0} : ReplaceKey(k))

(* The ticker keeps ticking.                                                *)
CertFairness == WF_certVars(Reloading)

(* Once the files stay as they are, a pair that belongs together and is     *)
(* valid is the one that is served in the end, whatever half-finished       *)
(* replacements were seen on the way (reload.go:54-132).                    *)
CertificateCatchesUp ==
    <>[](Present /\ keyFile.version = KeyOf[certFile.version] /\ certFile.version \notin ExpiredCerts
            => serving.version = certFile.version)
=============================================================================
