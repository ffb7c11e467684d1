---------------------------- MODULE ClientCerts ----------------------------
(***************************************************************************)
(* The certificates of the client commands: GetResourceInfo with the TLS   *)
(* key pair of an organization and GenSSHKey with the SSH one              *)
(* (internal/client/client.go).                                            *)
(***************************************************************************)
EXTENDS ClientLogin

Mine(p, kind) == <<kind, plan[p].org>>
\* The certificate of a pair that has just been made.
Issued(i) == [pair |-> i, live |-> TRUE]

Truncates(file, s) == [file EXCEPT ![s] = Torn]
Writes(file, s, i) == [file EXCEPT ![s] = i]

-----------------------------------------------------------------------------
(* IsClientCertValid: the organization is the one of the token FILE, and     *)
(* key and certificate are not compared.                                     *)

\* FetchCertAndReturnPaths: MTLSLogin, then GetCert and WriteCertToFile.
FetchPair(p) == Call(p, [proc[p] EXCEPT !.org = None], "readToken", <<"newKey">>)

\* The command goes on with the names of the files of `org`.
GoodPair(p, org) == GoOn(p, [proc[p] EXCEPT !.org = org, !.key = None])

FileOrg(p) ==
    /\ At(p, "fileOrg")
    /\ IF token["client"] \in Token
       THEN Become(p, [proc[p] EXCEPT !.pc = "validKey", !.org = token["client"].of])
       ELSE FetchPair(p)
    /\ NoFile /\ UNCHANGED faults

ValidKey(p) ==
    /\ At(p, "validKey")
    /\ IF Readable(keyFile[<<"tls", proc[p].org>>]) THEN Goto(p, "validCrt")
                                                   ELSE FetchPair(p)
    /\ NoFile /\ UNCHANGED faults

\* Mutant: the certificate's dates are not looked at.
ValidCrtUndated(p) ==
    /\ At(p, "validCrt")
    /\ IF ~Readable(crtFile[<<"tls", proc[p].org>>]) THEN FetchPair(p)
       ELSE GoodPair(p, proc[p].org)
    /\ NoFile /\ UNCHANGED faults

ValidCrt(p) ==
    /\ At(p, "validCrt")
    /\ IF ~Good(crtFile[<<"tls", proc[p].org>>]) THEN FetchPair(p)
       ELSE GoodPair(p, proc[p].org)
    /\ NoFile /\ UNCHANGED faults

-----------------------------------------------------------------------------
(* GetCert makes a key and has it signed, and WriteCertToFile writes the key *)
(* and then the certificate.                                                 *)

\* Mutant of Target: the files are named after the token file's organization.
TargetOfFile(p) ==
    <<"tls", IF token["client"] \in Token THEN token["client"].of ELSE plan[p].org>>

\* The names of the two files.
Target(p) == Mine(p, "tls")

\* GetCert, whose errors are log.Fatal, and the key file truncated.
NewKey(p) ==
    /\ At(p, "newKey")
    /\ \/ /\ Unused(Mine(p, "tls")) # {}
          /\ keyFile' = Truncates(keyFile, Target(p))
          /\ Become(p, [proc[p] EXCEPT
               !.pc = "fillKey", !.key = NewPair(Mine(p, "tls"))])
          /\ UNCHANGED faults
       \/ Fault("api") /\ End(p) /\ UNCHANGED keyFile
    /\ UNCHANGED <<plan, token, crtFile, prefs, handed>>

FillKey(p) ==
    /\ At(p, "fillKey")
    /\ keyFile' = Writes(keyFile, Target(p), proc[p].key)
    /\ Goto(p, "newCrt")
    /\ UNCHANGED <<plan, token, crtFile, prefs, handed, faults>>

NewCrt(p) ==
    /\ At(p, "newCrt")
    /\ crtFile' = Truncates(crtFile, Target(p))
    /\ Goto(p, "fillCrt")
    /\ UNCHANGED <<plan, token, keyFile, prefs, handed, faults>>

\* Mutant of FillCrt: the key is written to both files.
FillCrtKey(p) ==
    /\ At(p, "fillCrt")
    /\ crtFile' = Writes(crtFile, Target(p), proc[p].key)
    /\ GoodPair(p, plan[p].org)
    /\ UNCHANGED <<plan, token, keyFile, prefs, handed, faults>>

FillCrt(p) ==
    /\ At(p, "fillCrt")
    /\ crtFile' = Writes(crtFile, Target(p), Issued(proc[p].key))
    /\ GoodPair(p, plan[p].org)
    /\ UNCHANGED <<plan, token, keyFile, prefs, handed, faults>>

-----------------------------------------------------------------------------
(* The rest of GetResourceInfo: the resource once more, then ReadOrgCert of  *)
(* the organization of the token in hand.                                    *)

ReadKey(p) ==
    /\ At(p, "readKey")
    /\ LET i == keyFile[Mine(p, "tls")]
       IN  \/ /\ Readable(i)
              /\ Become(p, [proc[p] EXCEPT !.pc = "readCrt", !.key = i])
              /\ UNCHANGED faults
           \/ ~Readable(i) /\ End(p) /\ UNCHANGED faults
           \/ Fault("api") /\ End(p)
    /\ NoFile

\* What follows uses the pair in hand: tls and ssh, the key store and the
\* listener do.  A database client is given the file names instead, and these
\* are not of this pair but of the one that was found valid before.
UsesPair(p) == plan[p].auth \/ Head(proc[p].todo) \in {"dial", "readToken"}

ReadCrt(p) ==
    /\ At(p, "readCrt")
    /\ LET i == crtFile[Mine(p, "tls")]
       IN  IF ~Readable(i) THEN End(p)
           ELSE GoOn(p, IF UsesPair(p) THEN [proc[p] EXCEPT !.org = None, !.crt = i]
                                       ELSE [proc[p] EXCEPT !.key = None])
    /\ NoFile /\ UNCHANGED faults

-----------------------------------------------------------------------------
(* GenSSHKey *)

\* It returns the certificate, not the key.
Signed(p, cert) ==
    GoOn(p, [proc[p] EXCEPT !.key = None, !.crt = None, !.cert = cert])

\* FetchResource, then validSshCert: the certificate and the key.
SshReadCrt(p) ==
    /\ At(p, "sshReadCrt")
    /\ LET c == crtFile[Mine(p, "ssh")]
       IN  \/ /\ Become(p, [proc[p] EXCEPT
                    !.pc = IF Readable(c) THEN "sshReadKey" ELSE "sshNewKey",
                    !.crt = IF Readable(c) THEN c ELSE None])
              /\ UNCHANGED faults
           \/ Fault("api") /\ End(p)
    /\ NoFile

\* NewCertSigner compares the two.
SshReadKey(p) ==
    /\ At(p, "sshReadKey")
    /\ IF Match(keyFile[Mine(p, "ssh")], proc[p].crt) /\ proc[p].crt.live
       THEN Signed(p, proc[p].crt)
       ELSE Goto(p, "sshNewKey")
    /\ NoFile /\ UNCHANGED faults

\* A key is made and written before it is signed.
SshNewKey(p) ==
    /\ At(p, "sshNewKey")
    /\ Unused(Mine(p, "ssh")) # {}
    /\ Become(p, [proc[p] EXCEPT
         !.pc = "sshFillKey", !.crt = None, !.key = NewPair(Mine(p, "ssh"))])
    /\ keyFile' = Truncates(keyFile, Mine(p, "ssh"))
    /\ UNCHANGED <<plan, token, crtFile, prefs, handed, faults>>

SshFillKey(p) ==
    /\ At(p, "sshFillKey")
    /\ keyFile' = Writes(keyFile, Mine(p, "ssh"), proc[p].key)
    /\ Goto(p, "sshNewCrt")
    /\ UNCHANGED <<plan, token, crtFile, prefs, handed, faults>>

\* The key is signed, or the command ends with the old certificate in place.
SshNewCrt(p) ==
    /\ At(p, "sshNewCrt")
    /\ \/ /\ crtFile' = Truncates(crtFile, Mine(p, "ssh"))
          /\ Goto(p, "sshFillCrt")
          /\ UNCHANGED faults
       \/ Fault("api") /\ End(p) /\ UNCHANGED crtFile
    /\ UNCHANGED <<plan, token, keyFile, prefs, handed>>

SshFillCrt(p) ==
    /\ At(p, "sshFillCrt")
    /\ crtFile' = Writes(crtFile, Mine(p, "ssh"), Issued(proc[p].key))
    /\ Signed(p, Issued(proc[p].key))
    /\ UNCHANGED <<plan, token, keyFile, prefs, handed, faults>>

CertStep(p) ==
    \/ FileOrg(p) \/ ValidKey(p) \/ ValidCrt(p)
    \/ NewKey(p) \/ FillKey(p) \/ NewCrt(p) \/ FillCrt(p) \/ ReadKey(p) \/ ReadCrt(p)
    \/ SshReadCrt(p) \/ SshReadKey(p)
    \/ SshNewKey(p) \/ SshFillKey(p) \/ SshNewCrt(p) \/ SshFillCrt(p)
=============================================================================
