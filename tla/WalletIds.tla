----------------------------- MODULE WalletIds -----------------------------
(* The wallets of the application, shared by the components that keep state *)
(* per wallet.                                                             *)
CONSTANT Wallets    \* wallet ids
=============================================================================
