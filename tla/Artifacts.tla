------------------------------ MODULE Artifacts ------------------------------
(***************************************************************************)
(* What processes leave for each other outside the execution state store:  *)
(* the .npy gap bundle, the day's quotes and distributions, the trained    *)
(* overlay, the broker session, the experiment registry and the caches of  *)
(* market data.  They share no state; "focus" names the one a behaviour    *)
(* explores, and the others stay as they are.                              *)
(***************************************************************************)
EXTENDS GapFiles, Naturals

CONSTANTS
    Captures, Publishers, Deciders, Horizons, LastFrame, Partial,
    Savers, Loaders, LastVersion, Missing,
    LastProcess, LastSession, LastCall, NoSession,
    Studies, Candidates, LastLine,
    Updaters, FrameLoaders, Bounded, FreshFrom, LastPrices, LastStamp,
    None

VARIABLES focus

-----------------------------------------------------------------------------
VARIABLES quotes, frame, bundle, rank, capture, publisher, decider, onTime

publicationVars ==
    <<quotes, frame, bundle, rank, capture, publisher, decider, onTime>>

Publication == INSTANCE GapPublication

ASSUME PublicationAssumption == Publication!PublicationAssumption

QuoteAgreement == Publication!QuoteAgreement
BlendIsOfOneIdentity == Publication!BlendIsOfOneIdentity
PassedIsServed == Publication!PassedIsServed

-----------------------------------------------------------------------------
VARIABLES current, staged, stored, versions, saver, loader, loaded, begun

overlayVars == <<current, staged, stored, versions, saver, loader, loaded, begun>>

Overlay == INSTANCE OverlayArtifact

ASSUME MissingIsFresh == Overlay!MissingIsFresh

PublishedIsLoadable == Overlay!PublishedIsLoadable
LoadsAreAtomic == Overlay!LoadsAreAtomic

-----------------------------------------------------------------------------
VARIABLES cache, live, opened, highest, client, call, shared, refused

sessionVars == <<cache, live, opened, highest, client, call, shared, refused>>

Session == INSTANCE BrokerSession

ASSUME SessionAssumption == Session!SessionAssumption

CallOutcomeIsTrue == Session!CallOutcomeIsTrue
RefusedOnlyIfShared == Session!RefusedOnlyIfShared

-----------------------------------------------------------------------------
VARIABLES log

Registry == INSTANCE ExperimentRegistry

StudiesArePreregistered == Registry!StudiesArePreregistered

-----------------------------------------------------------------------------
VARIABLES raw, rawAt, execFrame, frameAt, now, updater, frameLoader, served,
          orderly, asked

marketVars == <<raw, rawAt, execFrame, frameAt, now, updater, frameLoader, served,
                orderly, asked>>

Market == INSTANCE MarketCache WITH
    Loaders <- FrameLoaders, LastVersion <- LastPrices,
    frame <- execFrame, loader <- frameLoader

UpdatedIsServed == Market!UpdatedIsServed

-----------------------------------------------------------------------------
ArtifactsInit ==
    /\ focus \in {"bundle", "publication", "overlay", "session", "registry", "market"}
    /\ Init /\ Publication!Init /\ Overlay!Init /\ Session!Init /\ Registry!Init
    /\ Market!Init

ArtifactsNext ==
    /\ UNCHANGED focus
    /\ \/ /\ focus = "bundle" /\ Next
          /\ UNCHANGED <<publicationVars, overlayVars, sessionVars, log, marketVars>>
       \/ /\ focus = "publication" /\ Publication!Next
          /\ UNCHANGED <<vars, overlayVars, sessionVars, log, marketVars>>
       \/ /\ focus = "overlay" /\ Overlay!Next
          /\ UNCHANGED <<vars, publicationVars, sessionVars, log, marketVars>>
       \/ /\ focus = "session" /\ Session!Next
          /\ UNCHANGED <<vars, publicationVars, overlayVars, log, marketVars>>
       \/ /\ focus = "registry" /\ Registry!Next
          /\ UNCHANGED <<vars, publicationVars, overlayVars, sessionVars, marketVars>>
       \/ /\ focus = "market" /\ Market!Next
          /\ UNCHANGED <<vars, publicationVars, overlayVars, sessionVars, log>>

ArtifactsSpec ==
    ArtifactsInit /\ [][ArtifactsNext]_<<focus, vars, publicationVars, overlayVars,
                                         sessionVars, log, marketVars>>
=============================================================================
