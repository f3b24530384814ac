----------------------------- MODULE MCWebSession -----------------------------
(* One browser tab that signs in.  The accounts: an organization administrator *)
(* with every obligation open and a stored home page, one with none who starts *)
(* at the page of the organization, a member with 2FA, and the instance        *)
(* administrator.                                                              *)
EXTENDS WebSession
CONSTANTS s1, s2
MCAccounts ==
    {Fresh("instance"),
     [Fresh("orgAdmin") EXCEPT !.pw = TRUE, !.must2fa = TRUE, !.agree = TRUE, !.route = "stats"],
     [Fresh("orgAdmin") EXCEPT !.route = "org"],
     [Fresh("member") EXCEPT !.mfa = TRUE]}
MCTargets == {Fresh("member"), [Fresh("member") EXCEPT !.pw = TRUE]}
=============================================================================
