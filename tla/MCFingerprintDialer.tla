------------------------ MODULE MCFingerprintDialer ------------------------
(* Model-checking instance of FingerprintDialer.  Configurations are       *)
(* records of the TLSDialerConfig fields the dialer reads: whether         *)
(* ClientHelloSpecFile is set (to the one file the writer rewrites), the   *)
(* JA3 string (empty, well-formed or malformed), the browser profile       *)
(* (empty, a catalog name, a family word, an unknown name) and the         *)
(* context deadline.                                                       *)
EXTENDS FingerprintDialer

Config(f, j, p, d) == [file |-> f, ja3 |-> j, profile |-> p, deadline |-> d]

\* Every source the precedence can pick, each with and without a deadline.
AllSources ==
    {Config(f, j, p, d) : f \in BOOLEAN, j \in {"", "malformed"},
                          p \in {""}, d \in {NoDeadline, 1}}
    \cup {Config(FALSE, "valid", "", d) : d \in {NoDeadline, 1}}
    \cup {Config(FALSE, "", p, NoDeadline) :
            p \in {"chrome_modern", "firefox", "netscape_4"}}

\* Only the JSON file, no deadline.
FileOnly == {Config(TRUE, "", "", NoDeadline)}

\* Profile names only.
ProfilesOnly == {Config(FALSE, "", p, NoDeadline) :
                    p \in {"chrome_modern", "firefox", "netscape_4"}}
=============================================================================
