--------------------------- MODULE MCPeerProcess ---------------------------
(* Two native opponents, whose games the league is to hear of, one of them
   under two URLs, and one std_v1 opponent with a written agreement.  The
   watchdog's limit is just what a healthy process needs: a handshake and a
   round; one beat missed would be one too many. *)
EXTENDS PeerProcess, TLC

CONSTANTS settled, roaming, std, url1, url2, lecturer, them

MCOpponents == {settled, roaming, std}
MCStdOpponents == {std}
MCUrls == {url1, url2}
MCUrlsOf == (settled :> {url1}) @@ (roaming :> {url1, url2}) @@ (std :> {url2})
MCAddresses == {lecturer, them}
MCRecipient == (settled :> {lecturer}) @@ (roaming :> {lecturer}) @@ (std :> {them})
MCOpponentRecipient == (settled :> {them}) @@ (roaming :> {them}) @@ (std :> {})
MCCcOpponent == (settled :> TRUE) @@ (roaming :> FALSE) @@ (std :> FALSE)
MCTrustDocumented == (settled :> FALSE) @@ (roaming :> FALSE) @@ (std :> TRUE)
MCDeclaredOverride == (settled :> {}) @@ (roaming :> {}) @@ (std :> {})
=============================================================================
