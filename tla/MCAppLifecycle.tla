---------------------------- MODULE MCAppLifecycle ----------------------------
(* AppLifecycle on small sets of configurations and requests, see the cfgs. *)
EXTENDS AppLifecycle

\* A complete local configuration and the default of a fresh installation.
Node(j) == {Absent, NewNode(j)}
LocalConfig ==
  [DefaultConfig EXCEPT !.ctl = "NAT", !.master = NewNode(FALSE), !.worker = NewNode(TRUE)]

\* What an administrator may have put into the file: every combination of a
\* controller and a login with and without nodes, valid or not, and networks
\* that the code cannot use.
AllConfigs ==
  {DefaultConfig} \cup
  [ctl : {"none", "NAT", "Bridged"}, token : {FALSE}, cidr : {TRUE}, login : BOOLEAN,
   master : Node(FALSE) \cup Node(TRUE), worker : Node(TRUE),
   mcast : BOOLEAN, mc : {TRUE}] \cup
  UNION {{[LocalConfig EXCEPT !.ctl = "undefined", !.master = m],
          [LocalConfig EXCEPT !.ctl = "other", !.master = m],
          [LocalConfig EXCEPT !.cidr = FALSE, !.master = m]} : m \in Node(FALSE)}

FewConfigs == {DefaultConfig, LocalConfig, [LocalConfig EXCEPT !.ctl = "Bridged"]}
OneConfig == {LocalConfig}

\* Step 1 and step 3 do the same to the configuration: step 3 stands for both.
AllRequests ==
  {<<"step2", Step1Form(s)>> : s \in SUBSET Roles} \cup
  {<<p, Step2Form(m, l)>> : p \in {"step2", "step3"}, m \in BOOLEAN, l \in BOOLEAN} \cup
  {<<p, NoFields>> : p \in {"step2", "step3", "install"}}
=============================================================================
